---- MODULE Spec2Model ----
(***************************************************************************)
(* A model of the SFL compiler front end (herluf-ba/sfl): the lexer        *)
(* (src/phase/lexer.rs), the event-buffer parser (src/phase/parser.rs) and *)
(* the CST -> AST lowering (src/phase/ast_builder.rs).                     *)
(*                                                                         *)
(* Characters are one-character strings, a source is a sequence of         *)
(* characters.  Rust offsets are 0-based; TLA+ sequences are 1-based, so   *)
(* characters[i] of the source is l.characters[i + 1] here.  A panic       *)
(* (failed expect/assert, index out of bounds, arithmetic overflow) is     *)
(* recorded as its message in a "panic" field ("" when there is none) and  *)
(* ends the run.                                                           *)
(***************************************************************************)
EXTENDS Integers, Sequences, FiniteSets, TLC

VARIABLES
    input,        \* Lexer::run: the source map, path -> characters
    pending,      \* Lexer::run: paths the `for source in input` loop has not visited
    lx,           \* the Lexer struct (self)
    tokens,       \* Lexer::lex: the local `tokens` vector
    lpc,          \* position inside Lexer::run / lex / next_token
    out,          \* Lexer::run: the local `out` map
    errs,         \* Lexer::run: the local `errs` vector
    result,       \* what Lexer::run returned: "none", "Ok", "SoftErr" or "panic"
    p_input,      \* Parser::run: the token map, path -> tokens
    p_pending,    \* Parser::run: paths not visited yet
    parser,       \* the Parser struct (self)
    cst,          \* Parser::parse: the tree build_tree returned
    p_pc,         \* position inside Parser::run / parse
    p_out,        \* Parser::run: the local `out` map
    p_errs,       \* Parser::run: the local `errs` vector
    p_result,     \* what Parser::run returned
    a_input,      \* AstBuilder::run: the tree map, path -> CST
    a_pending,    \* AstBuilder::run: paths not visited yet
    a_out,        \* AstBuilder::run: the local `out` map
    a_pc,         \* position inside AstBuilder::run
    a_result,     \* what AstBuilder::run returned
    tcr,          \* TypeChecker::run: its locals, the checker (self) and what it returned
    sub,          \* Substitution::apply on a substitution: its operands and its result
    unif,         \* TypeChecker::unify: its operands, the checker and both results
    interp,       \* Interpreter::run: the expression and the outcome
    driver,       \* main.rs run: the config, the position in run and what it returned
    descent       \* the grammar pass with an explicit call stack: parser, frames, last return

lexvars == <<input, pending, lx, tokens, lpc, out, errs, result>>

parservars == <<p_input, p_pending, parser, cst, p_pc, p_out, p_errs, p_result>>

astvars == <<a_input, a_pending, a_out, a_pc, a_result>>

latervars == <<tcr, sub, unif, interp, driver, descent>>

vars == <<lexvars, parservars, astvars, latervars>>

----------------------------------------------------------------------------
(* Bounds of the model *)

MaxLen == 4            \* longest source enumerated over Alphabet

Alphabet == {"1", ".", " ", "\n", "#", "a", "@", "+"}

Min(a, b) == IF a < b THEN a ELSE b

SeqsUpTo(S, n) == UNION {[1..k -> S] : k \in 0..n}

----------------------------------------------------------------------------
(* Characters.  A character is a string: the character itself when it is   *)
(* a printable ASCII character or one of \t, \n, \r and \f, and otherwise   *)
(* the name of its code point, U+ and four to six hexadecimal digits in     *)
(* upper case: "U+00E9", "U+1D44E", "U+000B".                               *)

HexDigit(n) ==
    <<"0", "1", "2", "3", "4", "5", "6", "7", "8", "9",
      "A", "B", "C", "D", "E", "F">>[n + 1]

\* n in hexadecimal, in at least width digits
RECURSIVE Hex(_, _)
Hex(n, width) ==
    IF n = 0 /\ width <= 0 THEN ""
    ELSE Hex(n \div 16, width - 1) \o HexDigit(n % 16)

CodePointName(n) == "U+" \o Hex(n, 4)

----------------------------------------------------------------------------
(* Character classes: char::is_whitespace, char::is_digit(10) and           *)
(* char::is_alphabetic.  The first and the last are the Unicode properties  *)
(* White_Space and Alphabetic, here as of Unicode 17.0.                     *)

\* White_Space: U+0009..U+000D, U+0020, U+0085, U+00A0, U+1680,
\* U+2000..U+200A, U+2028, U+2029, U+202F, U+205F and U+3000
IsWhitespace(c) ==
    c \in {"\t", "\n", "U+000B", "\f", "\r", " ", "U+0085", "U+00A0",
           "U+1680", "U+2000", "U+2001", "U+2002", "U+2003", "U+2004",
           "U+2005", "U+2006", "U+2007", "U+2008", "U+2009", "U+200A",
           "U+2028", "U+2029", "U+202F", "U+205F", "U+3000"}

\* is_digit(10) knows the ASCII digits only
IsDigit(c) == c \in {"0", "1", "2", "3", "4", "5", "6", "7", "8", "9"}

\* Alphabetic in U+0000..U+007F
AsciiLetters ==
    {"a", "b", "c", "d", "e", "f", "g", "h", "i", "j", "k", "l", "m", "n",
     "o", "p", "q", "r", "s", "t", "u", "v", "w", "x", "y", "z", "A", "B",
     "C", "D", "E", "F", "G", "H", "I", "J", "K", "L", "M", "N", "O", "P",
     "Q", "R", "S", "T", "U", "V", "W", "X", "Y", "Z"}

\* Alphabetic from U+0080 on: the first and the last code point of each run
AlphabeticRanges ==
    { <<\h00AA, \h00AA>>, <<\h00B5, \h00B5>>, <<\h00BA, \h00BA>>,
      <<\h00C0, \h00D6>>, <<\h00D8, \h00F6>>, <<\h00F8, \h02C1>>,
      <<\h02C6, \h02D1>>, <<\h02E0, \h02E4>>, <<\h02EC, \h02EC>>,
      <<\h02EE, \h02EE>>, <<\h0345, \h0345>>, <<\h0363, \h0374>>,
      <<\h0376, \h0377>>, <<\h037A, \h037D>>, <<\h037F, \h037F>>,
      <<\h0386, \h0386>>, <<\h0388, \h038A>>, <<\h038C, \h038C>>,
      <<\h038E, \h03A1>>, <<\h03A3, \h03F5>>, <<\h03F7, \h0481>>,
      <<\h048A, \h052F>>, <<\h0531, \h0556>>, <<\h0559, \h0559>>,
      <<\h0560, \h0588>>, <<\h05B0, \h05BD>>, <<\h05BF, \h05BF>>,
      <<\h05C1, \h05C2>>, <<\h05C4, \h05C5>>, <<\h05C7, \h05C7>>,
      <<\h05D0, \h05EA>>, <<\h05EF, \h05F2>>, <<\h0610, \h061A>>,
      <<\h0620, \h0657>>, <<\h0659, \h065F>>, <<\h066E, \h06D3>>,
      <<\h06D5, \h06DC>>, <<\h06E1, \h06E8>>, <<\h06ED, \h06EF>>,
      <<\h06FA, \h06FC>>, <<\h06FF, \h06FF>>, <<\h0710, \h073F>>,
      <<\h074D, \h07B1>>, <<\h07CA, \h07EA>>, <<\h07F4, \h07F5>>,
      <<\h07FA, \h07FA>>, <<\h0800, \h0817>>, <<\h081A, \h082C>>,
      <<\h0840, \h0858>>, <<\h0860, \h086A>>, <<\h0870, \h0887>>,
      <<\h0889, \h088F>>, <<\h0897, \h0897>>, <<\h08A0, \h08C9>>,
      <<\h08D4, \h08DF>>, <<\h08E3, \h08E9>>, <<\h08F0, \h093B>>,
      <<\h093D, \h094C>>, <<\h094E, \h0950>>, <<\h0955, \h0963>>,
      <<\h0971, \h0983>>, <<\h0985, \h098C>>, <<\h098F, \h0990>>,
      <<\h0993, \h09A8>>, <<\h09AA, \h09B0>>, <<\h09B2, \h09B2>>,
      <<\h09B6, \h09B9>>, <<\h09BD, \h09C4>>, <<\h09C7, \h09C8>>,
      <<\h09CB, \h09CC>>, <<\h09CE, \h09CE>>, <<\h09D7, \h09D7>>,
      <<\h09DC, \h09DD>>, <<\h09DF, \h09E3>>, <<\h09F0, \h09F1>>,
      <<\h09FC, \h09FC>>, <<\h0A01, \h0A03>>, <<\h0A05, \h0A0A>>,
      <<\h0A0F, \h0A10>>, <<\h0A13, \h0A28>>, <<\h0A2A, \h0A30>>,
      <<\h0A32, \h0A33>>, <<\h0A35, \h0A36>>, <<\h0A38, \h0A39>>,
      <<\h0A3E, \h0A42>>, <<\h0A47, \h0A48>>, <<\h0A4B, \h0A4C>>,
      <<\h0A51, \h0A51>>, <<\h0A59, \h0A5C>>, <<\h0A5E, \h0A5E>>,
      <<\h0A70, \h0A75>>, <<\h0A81, \h0A83>>, <<\h0A85, \h0A8D>>,
      <<\h0A8F, \h0A91>>, <<\h0A93, \h0AA8>>, <<\h0AAA, \h0AB0>>,
      <<\h0AB2, \h0AB3>>, <<\h0AB5, \h0AB9>>, <<\h0ABD, \h0AC5>>,
      <<\h0AC7, \h0AC9>>, <<\h0ACB, \h0ACC>>, <<\h0AD0, \h0AD0>>,
      <<\h0AE0, \h0AE3>>, <<\h0AF9, \h0AFC>>, <<\h0B01, \h0B03>>,
      <<\h0B05, \h0B0C>>, <<\h0B0F, \h0B10>>, <<\h0B13, \h0B28>>,
      <<\h0B2A, \h0B30>>, <<\h0B32, \h0B33>>, <<\h0B35, \h0B39>>,
      <<\h0B3D, \h0B44>>, <<\h0B47, \h0B48>>, <<\h0B4B, \h0B4C>>,
      <<\h0B56, \h0B57>>, <<\h0B5C, \h0B5D>>, <<\h0B5F, \h0B63>>,
      <<\h0B71, \h0B71>>, <<\h0B82, \h0B83>>, <<\h0B85, \h0B8A>>,
      <<\h0B8E, \h0B90>>, <<\h0B92, \h0B95>>, <<\h0B99, \h0B9A>>,
      <<\h0B9C, \h0B9C>>, <<\h0B9E, \h0B9F>>, <<\h0BA3, \h0BA4>>,
      <<\h0BA8, \h0BAA>>, <<\h0BAE, \h0BB9>>, <<\h0BBE, \h0BC2>>,
      <<\h0BC6, \h0BC8>>, <<\h0BCA, \h0BCC>>, <<\h0BD0, \h0BD0>>,
      <<\h0BD7, \h0BD7>>, <<\h0C00, \h0C0C>>, <<\h0C0E, \h0C10>>,
      <<\h0C12, \h0C28>>, <<\h0C2A, \h0C39>>, <<\h0C3D, \h0C44>>,
      <<\h0C46, \h0C48>>, <<\h0C4A, \h0C4C>>, <<\h0C55, \h0C56>>,
      <<\h0C58, \h0C5A>>, <<\h0C5C, \h0C5D>>, <<\h0C60, \h0C63>>,
      <<\h0C80, \h0C83>>, <<\h0C85, \h0C8C>>, <<\h0C8E, \h0C90>>,
      <<\h0C92, \h0CA8>>, <<\h0CAA, \h0CB3>>, <<\h0CB5, \h0CB9>>,
      <<\h0CBD, \h0CC4>>, <<\h0CC6, \h0CC8>>, <<\h0CCA, \h0CCC>>,
      <<\h0CD5, \h0CD6>>, <<\h0CDC, \h0CDE>>, <<\h0CE0, \h0CE3>>,
      <<\h0CF1, \h0CF3>>, <<\h0D00, \h0D0C>>, <<\h0D0E, \h0D10>>,
      <<\h0D12, \h0D3A>>, <<\h0D3D, \h0D44>>, <<\h0D46, \h0D48>>,
      <<\h0D4A, \h0D4C>>, <<\h0D4E, \h0D4E>>, <<\h0D54, \h0D57>>,
      <<\h0D5F, \h0D63>>, <<\h0D7A, \h0D7F>>, <<\h0D81, \h0D83>>,
      <<\h0D85, \h0D96>>, <<\h0D9A, \h0DB1>>, <<\h0DB3, \h0DBB>>,
      <<\h0DBD, \h0DBD>>, <<\h0DC0, \h0DC6>>, <<\h0DCF, \h0DD4>>,
      <<\h0DD6, \h0DD6>>, <<\h0DD8, \h0DDF>>, <<\h0DF2, \h0DF3>>,
      <<\h0E01, \h0E3A>>, <<\h0E40, \h0E46>>, <<\h0E4D, \h0E4D>>,
      <<\h0E81, \h0E82>>, <<\h0E84, \h0E84>>, <<\h0E86, \h0E8A>>,
      <<\h0E8C, \h0EA3>>, <<\h0EA5, \h0EA5>>, <<\h0EA7, \h0EB9>>,
      <<\h0EBB, \h0EBD>>, <<\h0EC0, \h0EC4>>, <<\h0EC6, \h0EC6>>,
      <<\h0ECD, \h0ECD>>, <<\h0EDC, \h0EDF>>, <<\h0F00, \h0F00>>,
      <<\h0F40, \h0F47>>, <<\h0F49, \h0F6C>>, <<\h0F71, \h0F83>>,
      <<\h0F88, \h0F97>>, <<\h0F99, \h0FBC>>, <<\h1000, \h1036>>,
      <<\h1038, \h1038>>, <<\h103B, \h103F>>, <<\h1050, \h108F>>,
      <<\h109A, \h109D>>, <<\h10A0, \h10C5>>, <<\h10C7, \h10C7>>,
      <<\h10CD, \h10CD>>, <<\h10D0, \h10FA>>, <<\h10FC, \h1248>>,
      <<\h124A, \h124D>>, <<\h1250, \h1256>>, <<\h1258, \h1258>>,
      <<\h125A, \h125D>>, <<\h1260, \h1288>>, <<\h128A, \h128D>>,
      <<\h1290, \h12B0>>, <<\h12B2, \h12B5>>, <<\h12B8, \h12BE>>,
      <<\h12C0, \h12C0>>, <<\h12C2, \h12C5>>, <<\h12C8, \h12D6>>,
      <<\h12D8, \h1310>>, <<\h1312, \h1315>>, <<\h1318, \h135A>>,
      <<\h1380, \h138F>>, <<\h13A0, \h13F5>>, <<\h13F8, \h13FD>>,
      <<\h1401, \h166C>>, <<\h166F, \h167F>>, <<\h1681, \h169A>>,
      <<\h16A0, \h16EA>>, <<\h16EE, \h16F8>>, <<\h1700, \h1713>>,
      <<\h171F, \h1733>>, <<\h1740, \h1753>>, <<\h1760, \h176C>>,
      <<\h176E, \h1770>>, <<\h1772, \h1773>>, <<\h1780, \h17B3>>,
      <<\h17B6, \h17C8>>, <<\h17D7, \h17D7>>, <<\h17DC, \h17DC>>,
      <<\h1820, \h1878>>, <<\h1880, \h18AA>>, <<\h18B0, \h18F5>>,
      <<\h1900, \h191E>>, <<\h1920, \h192B>>, <<\h1930, \h1938>>,
      <<\h1950, \h196D>>, <<\h1970, \h1974>>, <<\h1980, \h19AB>>,
      <<\h19B0, \h19C9>>, <<\h1A00, \h1A1B>>, <<\h1A20, \h1A5E>>,
      <<\h1A61, \h1A74>>, <<\h1AA7, \h1AA7>>, <<\h1ABF, \h1AC0>>,
      <<\h1ACC, \h1ACE>>, <<\h1B00, \h1B33>>, <<\h1B35, \h1B43>>,
      <<\h1B45, \h1B4C>>, <<\h1B80, \h1BA9>>, <<\h1BAC, \h1BAF>>,
      <<\h1BBA, \h1BE5>>, <<\h1BE7, \h1BF1>>, <<\h1C00, \h1C36>>,
      <<\h1C4D, \h1C4F>>, <<\h1C5A, \h1C7D>>, <<\h1C80, \h1C8A>>,
      <<\h1C90, \h1CBA>>, <<\h1CBD, \h1CBF>>, <<\h1CE9, \h1CEC>>,
      <<\h1CEE, \h1CF3>>, <<\h1CF5, \h1CF6>>, <<\h1CFA, \h1CFA>>,
      <<\h1D00, \h1DBF>>, <<\h1DD3, \h1DF4>>, <<\h1E00, \h1F15>>,
      <<\h1F18, \h1F1D>>, <<\h1F20, \h1F45>>, <<\h1F48, \h1F4D>>,
      <<\h1F50, \h1F57>>, <<\h1F59, \h1F59>>, <<\h1F5B, \h1F5B>>,
      <<\h1F5D, \h1F5D>>, <<\h1F5F, \h1F7D>>, <<\h1F80, \h1FB4>>,
      <<\h1FB6, \h1FBC>>, <<\h1FBE, \h1FBE>>, <<\h1FC2, \h1FC4>>,
      <<\h1FC6, \h1FCC>>, <<\h1FD0, \h1FD3>>, <<\h1FD6, \h1FDB>>,
      <<\h1FE0, \h1FEC>>, <<\h1FF2, \h1FF4>>, <<\h1FF6, \h1FFC>>,
      <<\h2071, \h2071>>, <<\h207F, \h207F>>, <<\h2090, \h209C>>,
      <<\h2102, \h2102>>, <<\h2107, \h2107>>, <<\h210A, \h2113>>,
      <<\h2115, \h2115>>, <<\h2119, \h211D>>, <<\h2124, \h2124>>,
      <<\h2126, \h2126>>, <<\h2128, \h2128>>, <<\h212A, \h212D>>,
      <<\h212F, \h2139>>, <<\h213C, \h213F>>, <<\h2145, \h2149>>,
      <<\h214E, \h214E>>, <<\h2160, \h2188>>, <<\h24B6, \h24E9>>,
      <<\h2C00, \h2CE4>>, <<\h2CEB, \h2CEE>>, <<\h2CF2, \h2CF3>>,
      <<\h2D00, \h2D25>>, <<\h2D27, \h2D27>>, <<\h2D2D, \h2D2D>>,
      <<\h2D30, \h2D67>>, <<\h2D6F, \h2D6F>>, <<\h2D80, \h2D96>>,
      <<\h2DA0, \h2DA6>>, <<\h2DA8, \h2DAE>>, <<\h2DB0, \h2DB6>>,
      <<\h2DB8, \h2DBE>>, <<\h2DC0, \h2DC6>>, <<\h2DC8, \h2DCE>>,
      <<\h2DD0, \h2DD6>>, <<\h2DD8, \h2DDE>>, <<\h2DE0, \h2DFF>>,
      <<\h2E2F, \h2E2F>>, <<\h3005, \h3007>>, <<\h3021, \h3029>>,
      <<\h3031, \h3035>>, <<\h3038, \h303C>>, <<\h3041, \h3096>>,
      <<\h309D, \h309F>>, <<\h30A1, \h30FA>>, <<\h30FC, \h30FF>>,
      <<\h3105, \h312F>>, <<\h3131, \h318E>>, <<\h31A0, \h31BF>>,
      <<\h31F0, \h31FF>>, <<\h3400, \h4DBF>>, <<\h4E00, \hA48C>>,
      <<\hA4D0, \hA4FD>>, <<\hA500, \hA60C>>, <<\hA610, \hA61F>>,
      <<\hA62A, \hA62B>>, <<\hA640, \hA66E>>, <<\hA674, \hA67B>>,
      <<\hA67F, \hA6EF>>, <<\hA717, \hA71F>>, <<\hA722, \hA788>>,
      <<\hA78B, \hA7DC>>, <<\hA7F1, \hA805>>, <<\hA807, \hA827>>,
      <<\hA840, \hA873>>, <<\hA880, \hA8C3>>, <<\hA8C5, \hA8C5>>,
      <<\hA8F2, \hA8F7>>, <<\hA8FB, \hA8FB>>, <<\hA8FD, \hA8FF>>,
      <<\hA90A, \hA92A>>, <<\hA930, \hA952>>, <<\hA960, \hA97C>>,
      <<\hA980, \hA9B2>>, <<\hA9B4, \hA9BF>>, <<\hA9CF, \hA9CF>>,
      <<\hA9E0, \hA9EF>>, <<\hA9FA, \hA9FE>>, <<\hAA00, \hAA36>>,
      <<\hAA40, \hAA4D>>, <<\hAA60, \hAA76>>, <<\hAA7A, \hAABE>>,
      <<\hAAC0, \hAAC0>>, <<\hAAC2, \hAAC2>>, <<\hAADB, \hAADD>>,
      <<\hAAE0, \hAAEF>>, <<\hAAF2, \hAAF5>>, <<\hAB01, \hAB06>>,
      <<\hAB09, \hAB0E>>, <<\hAB11, \hAB16>>, <<\hAB20, \hAB26>>,
      <<\hAB28, \hAB2E>>, <<\hAB30, \hAB5A>>, <<\hAB5C, \hAB69>>,
      <<\hAB70, \hABEA>>, <<\hAC00, \hD7A3>>, <<\hD7B0, \hD7C6>>,
      <<\hD7CB, \hD7FB>>, <<\hF900, \hFA6D>>, <<\hFA70, \hFAD9>>,
      <<\hFB00, \hFB06>>, <<\hFB13, \hFB17>>, <<\hFB1D, \hFB28>>,
      <<\hFB2A, \hFB36>>, <<\hFB38, \hFB3C>>, <<\hFB3E, \hFB3E>>,
      <<\hFB40, \hFB41>>, <<\hFB43, \hFB44>>, <<\hFB46, \hFBB1>>,
      <<\hFBD3, \hFD3D>>, <<\hFD50, \hFD8F>>, <<\hFD92, \hFDC7>>,
      <<\hFDF0, \hFDFB>>, <<\hFE70, \hFE74>>, <<\hFE76, \hFEFC>>,
      <<\hFF21, \hFF3A>>, <<\hFF41, \hFF5A>>, <<\hFF66, \hFFBE>>,
      <<\hFFC2, \hFFC7>>, <<\hFFCA, \hFFCF>>, <<\hFFD2, \hFFD7>>,
      <<\hFFDA, \hFFDC>>, <<\h10000, \h1000B>>, <<\h1000D, \h10026>>,
      <<\h10028, \h1003A>>, <<\h1003C, \h1003D>>, <<\h1003F, \h1004D>>,
      <<\h10050, \h1005D>>, <<\h10080, \h100FA>>, <<\h10140, \h10174>>,
      <<\h10280, \h1029C>>, <<\h102A0, \h102D0>>, <<\h10300, \h1031F>>,
      <<\h1032D, \h1034A>>, <<\h10350, \h1037A>>, <<\h10380, \h1039D>>,
      <<\h103A0, \h103C3>>, <<\h103C8, \h103CF>>, <<\h103D1, \h103D5>>,
      <<\h10400, \h1049D>>, <<\h104B0, \h104D3>>, <<\h104D8, \h104FB>>,
      <<\h10500, \h10527>>, <<\h10530, \h10563>>, <<\h10570, \h1057A>>,
      <<\h1057C, \h1058A>>, <<\h1058C, \h10592>>, <<\h10594, \h10595>>,
      <<\h10597, \h105A1>>, <<\h105A3, \h105B1>>, <<\h105B3, \h105B9>>,
      <<\h105BB, \h105BC>>, <<\h105C0, \h105F3>>, <<\h10600, \h10736>>,
      <<\h10740, \h10755>>, <<\h10760, \h10767>>, <<\h10780, \h10785>>,
      <<\h10787, \h107B0>>, <<\h107B2, \h107BA>>, <<\h10800, \h10805>>,
      <<\h10808, \h10808>>, <<\h1080A, \h10835>>, <<\h10837, \h10838>>,
      <<\h1083C, \h1083C>>, <<\h1083F, \h10855>>, <<\h10860, \h10876>>,
      <<\h10880, \h1089E>>, <<\h108E0, \h108F2>>, <<\h108F4, \h108F5>>,
      <<\h10900, \h10915>>, <<\h10920, \h10939>>, <<\h10940, \h10959>>,
      <<\h10980, \h109B7>>, <<\h109BE, \h109BF>>, <<\h10A00, \h10A03>>,
      <<\h10A05, \h10A06>>, <<\h10A0C, \h10A13>>, <<\h10A15, \h10A17>>,
      <<\h10A19, \h10A35>>, <<\h10A60, \h10A7C>>, <<\h10A80, \h10A9C>>,
      <<\h10AC0, \h10AC7>>, <<\h10AC9, \h10AE4>>, <<\h10B00, \h10B35>>,
      <<\h10B40, \h10B55>>, <<\h10B60, \h10B72>>, <<\h10B80, \h10B91>>,
      <<\h10C00, \h10C48>>, <<\h10C80, \h10CB2>>, <<\h10CC0, \h10CF2>>,
      <<\h10D00, \h10D27>>, <<\h10D4A, \h10D65>>, <<\h10D69, \h10D69>>,
      <<\h10D6F, \h10D85>>, <<\h10E80, \h10EA9>>, <<\h10EAB, \h10EAC>>,
      <<\h10EB0, \h10EB1>>, <<\h10EC2, \h10EC7>>, <<\h10EFA, \h10EFC>>,
      <<\h10F00, \h10F1C>>, <<\h10F27, \h10F27>>, <<\h10F30, \h10F45>>,
      <<\h10F70, \h10F81>>, <<\h10FB0, \h10FC4>>, <<\h10FE0, \h10FF6>>,
      <<\h11000, \h11045>>, <<\h11071, \h11075>>, <<\h11080, \h110B8>>,
      <<\h110C2, \h110C2>>, <<\h110D0, \h110E8>>, <<\h11100, \h11132>>,
      <<\h11144, \h11147>>, <<\h11150, \h11172>>, <<\h11176, \h11176>>,
      <<\h11180, \h111BF>>, <<\h111C1, \h111C4>>, <<\h111CE, \h111CF>>,
      <<\h111DA, \h111DA>>, <<\h111DC, \h111DC>>, <<\h11200, \h11211>>,
      <<\h11213, \h11234>>, <<\h11237, \h11237>>, <<\h1123E, \h11241>>,
      <<\h11280, \h11286>>, <<\h11288, \h11288>>, <<\h1128A, \h1128D>>,
      <<\h1128F, \h1129D>>, <<\h1129F, \h112A8>>, <<\h112B0, \h112E8>>,
      <<\h11300, \h11303>>, <<\h11305, \h1130C>>, <<\h1130F, \h11310>>,
      <<\h11313, \h11328>>, <<\h1132A, \h11330>>, <<\h11332, \h11333>>,
      <<\h11335, \h11339>>, <<\h1133D, \h11344>>, <<\h11347, \h11348>>,
      <<\h1134B, \h1134C>>, <<\h11350, \h11350>>, <<\h11357, \h11357>>,
      <<\h1135D, \h11363>>, <<\h11380, \h11389>>, <<\h1138B, \h1138B>>,
      <<\h1138E, \h1138E>>, <<\h11390, \h113B5>>, <<\h113B7, \h113C0>>,
      <<\h113C2, \h113C2>>, <<\h113C5, \h113C5>>, <<\h113C7, \h113CA>>,
      <<\h113CC, \h113CD>>, <<\h113D1, \h113D1>>, <<\h113D3, \h113D3>>,
      <<\h11400, \h11441>>, <<\h11443, \h11445>>, <<\h11447, \h1144A>>,
      <<\h1145F, \h11461>>, <<\h11480, \h114C1>>, <<\h114C4, \h114C5>>,
      <<\h114C7, \h114C7>>, <<\h11580, \h115B5>>, <<\h115B8, \h115BE>>,
      <<\h115D8, \h115DD>>, <<\h11600, \h1163E>>, <<\h11640, \h11640>>,
      <<\h11644, \h11644>>, <<\h11680, \h116B5>>, <<\h116B8, \h116B8>>,
      <<\h11700, \h1171A>>, <<\h1171D, \h1172A>>, <<\h11740, \h11746>>,
      <<\h11800, \h11838>>, <<\h118A0, \h118DF>>, <<\h118FF, \h11906>>,
      <<\h11909, \h11909>>, <<\h1190C, \h11913>>, <<\h11915, \h11916>>,
      <<\h11918, \h11935>>, <<\h11937, \h11938>>, <<\h1193B, \h1193C>>,
      <<\h1193F, \h11942>>, <<\h119A0, \h119A7>>, <<\h119AA, \h119D7>>,
      <<\h119DA, \h119DF>>, <<\h119E1, \h119E1>>, <<\h119E3, \h119E4>>,
      <<\h11A00, \h11A32>>, <<\h11A35, \h11A3E>>, <<\h11A50, \h11A97>>,
      <<\h11A9D, \h11A9D>>, <<\h11AB0, \h11AF8>>, <<\h11B60, \h11B67>>,
      <<\h11BC0, \h11BE0>>, <<\h11C00, \h11C08>>, <<\h11C0A, \h11C36>>,
      <<\h11C38, \h11C3E>>, <<\h11C40, \h11C40>>, <<\h11C72, \h11C8F>>,
      <<\h11C92, \h11CA7>>, <<\h11CA9, \h11CB6>>, <<\h11D00, \h11D06>>,
      <<\h11D08, \h11D09>>, <<\h11D0B, \h11D36>>, <<\h11D3A, \h11D3A>>,
      <<\h11D3C, \h11D3D>>, <<\h11D3F, \h11D41>>, <<\h11D43, \h11D43>>,
      <<\h11D46, \h11D47>>, <<\h11D60, \h11D65>>, <<\h11D67, \h11D68>>,
      <<\h11D6A, \h11D8E>>, <<\h11D90, \h11D91>>, <<\h11D93, \h11D96>>,
      <<\h11D98, \h11D98>>, <<\h11DB0, \h11DDB>>, <<\h11EE0, \h11EF6>>,
      <<\h11F00, \h11F10>>, <<\h11F12, \h11F3A>>, <<\h11F3E, \h11F40>>,
      <<\h11FB0, \h11FB0>>, <<\h12000, \h12399>>, <<\h12400, \h1246E>>,
      <<\h12480, \h12543>>, <<\h12F90, \h12FF0>>, <<\h13000, \h1342F>>,
      <<\h13441, \h13446>>, <<\h13460, \h143FA>>, <<\h14400, \h14646>>,
      <<\h16100, \h1612E>>, <<\h16800, \h16A38>>, <<\h16A40, \h16A5E>>,
      <<\h16A70, \h16ABE>>, <<\h16AD0, \h16AED>>, <<\h16B00, \h16B2F>>,
      <<\h16B40, \h16B43>>, <<\h16B63, \h16B77>>, <<\h16B7D, \h16B8F>>,
      <<\h16D40, \h16D6C>>, <<\h16E40, \h16E7F>>, <<\h16EA0, \h16EB8>>,
      <<\h16EBB, \h16ED3>>, <<\h16F00, \h16F4A>>, <<\h16F4F, \h16F87>>,
      <<\h16F8F, \h16F9F>>, <<\h16FE0, \h16FE1>>, <<\h16FE3, \h16FE3>>,
      <<\h16FF0, \h16FF6>>, <<\h17000, \h18CD5>>, <<\h18CFF, \h18D1E>>,
      <<\h18D80, \h18DF2>>, <<\h1AFF0, \h1AFF3>>, <<\h1AFF5, \h1AFFB>>,
      <<\h1AFFD, \h1AFFE>>, <<\h1B000, \h1B122>>, <<\h1B132, \h1B132>>,
      <<\h1B150, \h1B152>>, <<\h1B155, \h1B155>>, <<\h1B164, \h1B167>>,
      <<\h1B170, \h1B2FB>>, <<\h1BC00, \h1BC6A>>, <<\h1BC70, \h1BC7C>>,
      <<\h1BC80, \h1BC88>>, <<\h1BC90, \h1BC99>>, <<\h1BC9E, \h1BC9E>>,
      <<\h1D400, \h1D454>>, <<\h1D456, \h1D49C>>, <<\h1D49E, \h1D49F>>,
      <<\h1D4A2, \h1D4A2>>, <<\h1D4A5, \h1D4A6>>, <<\h1D4A9, \h1D4AC>>,
      <<\h1D4AE, \h1D4B9>>, <<\h1D4BB, \h1D4BB>>, <<\h1D4BD, \h1D4C3>>,
      <<\h1D4C5, \h1D505>>, <<\h1D507, \h1D50A>>, <<\h1D50D, \h1D514>>,
      <<\h1D516, \h1D51C>>, <<\h1D51E, \h1D539>>, <<\h1D53B, \h1D53E>>,
      <<\h1D540, \h1D544>>, <<\h1D546, \h1D546>>, <<\h1D54A, \h1D550>>,
      <<\h1D552, \h1D6A5>>, <<\h1D6A8, \h1D6C0>>, <<\h1D6C2, \h1D6DA>>,
      <<\h1D6DC, \h1D6FA>>, <<\h1D6FC, \h1D714>>, <<\h1D716, \h1D734>>,
      <<\h1D736, \h1D74E>>, <<\h1D750, \h1D76E>>, <<\h1D770, \h1D788>>,
      <<\h1D78A, \h1D7A8>>, <<\h1D7AA, \h1D7C2>>, <<\h1D7C4, \h1D7CB>>,
      <<\h1DF00, \h1DF1E>>, <<\h1DF25, \h1DF2A>>, <<\h1E000, \h1E006>>,
      <<\h1E008, \h1E018>>, <<\h1E01B, \h1E021>>, <<\h1E023, \h1E024>>,
      <<\h1E026, \h1E02A>>, <<\h1E030, \h1E06D>>, <<\h1E08F, \h1E08F>>,
      <<\h1E100, \h1E12C>>, <<\h1E137, \h1E13D>>, <<\h1E14E, \h1E14E>>,
      <<\h1E290, \h1E2AD>>, <<\h1E2C0, \h1E2EB>>, <<\h1E4D0, \h1E4EB>>,
      <<\h1E5D0, \h1E5ED>>, <<\h1E5F0, \h1E5F0>>, <<\h1E6C0, \h1E6DE>>,
      <<\h1E6E0, \h1E6F5>>, <<\h1E6FE, \h1E6FF>>, <<\h1E7E0, \h1E7E6>>,
      <<\h1E7E8, \h1E7EB>>, <<\h1E7ED, \h1E7EE>>, <<\h1E7F0, \h1E7FE>>,
      <<\h1E800, \h1E8C4>>, <<\h1E900, \h1E943>>, <<\h1E947, \h1E947>>,
      <<\h1E94B, \h1E94B>>, <<\h1EE00, \h1EE03>>, <<\h1EE05, \h1EE1F>>,
      <<\h1EE21, \h1EE22>>, <<\h1EE24, \h1EE24>>, <<\h1EE27, \h1EE27>>,
      <<\h1EE29, \h1EE32>>, <<\h1EE34, \h1EE37>>, <<\h1EE39, \h1EE39>>,
      <<\h1EE3B, \h1EE3B>>, <<\h1EE42, \h1EE42>>, <<\h1EE47, \h1EE47>>,
      <<\h1EE49, \h1EE49>>, <<\h1EE4B, \h1EE4B>>, <<\h1EE4D, \h1EE4F>>,
      <<\h1EE51, \h1EE52>>, <<\h1EE54, \h1EE54>>, <<\h1EE57, \h1EE57>>,
      <<\h1EE59, \h1EE59>>, <<\h1EE5B, \h1EE5B>>, <<\h1EE5D, \h1EE5D>>,
      <<\h1EE5F, \h1EE5F>>, <<\h1EE61, \h1EE62>>, <<\h1EE64, \h1EE64>>,
      <<\h1EE67, \h1EE6A>>, <<\h1EE6C, \h1EE72>>, <<\h1EE74, \h1EE77>>,
      <<\h1EE79, \h1EE7C>>, <<\h1EE7E, \h1EE7E>>, <<\h1EE80, \h1EE89>>,
      <<\h1EE8B, \h1EE9B>>, <<\h1EEA1, \h1EEA3>>, <<\h1EEA5, \h1EEA9>>,
      <<\h1EEAB, \h1EEBB>>, <<\h1F130, \h1F149>>, <<\h1F150, \h1F169>>,
      <<\h1F170, \h1F189>>, <<\h20000, \h2A6DF>>, <<\h2A700, \h2B81D>>,
      <<\h2B820, \h2CEAD>>, <<\h2CEB0, \h2EBE0>>, <<\h2EBF0, \h2EE5D>>,
      <<\h2F800, \h2FA1D>>, <<\h30000, \h3134A>>, <<\h31350, \h33479>> }

IsAlphabetic(c) ==
    IF Len(c) = 1 THEN c \in AsciiLetters
    ELSE \E r \in AlphabeticRanges :
             \E n \in r[1] .. r[2] : c = CodePointName(n)

DigitValue(c) ==
    CASE c = "0" -> 0 [] c = "1" -> 1 [] c = "2" -> 2 [] c = "3" -> 3
      [] c = "4" -> 4 [] c = "5" -> 5 [] c = "6" -> 6 [] c = "7" -> 7
      [] c = "8" -> 8 [] c = "9" -> 9

----------------------------------------------------------------------------
(* f64 (IEEE 754 binary64), as far as the program uses it:                  *)
(* str::parse::<f64> (lexer.rs:125), + and - (interpreter.rs:73, 82) and    *)
(* Display (interpreter.rs:27, token.rs:62).                                *)
(*                                                                          *)
(* A value is a record: class "finite", "inf" or "nan", the sign neg, and,  *)
(* for a finite value, the magnitude m * 2^e with m odd (m = 0, e = 0 for   *)
(* a zero).  m exceeds the 32-bit integers of TLC, so it is a sequence of   *)
(* limbs in base 2^15, least significant first and without a leading zero   *)
(* limb; the empty sequence is 0.                                           *)

BigBase == 2^15

\* limb i of a, 0 beyond its last limb
BigLimb(a, i) == IF i > Len(a) THEN 0 ELSE a[i]

\* a without its leading zero limbs
BigTrim(a) ==
    IF \A i \in 1 .. Len(a) : a[i] = 0 THEN <<>>
    ELSE SubSeq(a, 1, CHOOSE i \in 1 .. Len(a) :
                          a[i] # 0 /\ \A j \in (i + 1) .. Len(a) : a[j] = 0)

\* The limbs lo .. hi of a * s + b * u, given the carry into limb lo, and
\* the carry out of limb hi.  The range is halved until it is one limb, so
\* that the depth of the evaluation stays small.
RECURSIVE BigSumRange(_, _, _, _, _, _, _)
BigSumJoin(low, high) == [limbs |-> low.limbs \o high.limbs, carry |-> high.carry]

BigSumHigh(low, a, s, b, u, lo, hi) ==
    BigSumJoin(low, BigSumRange(a, s, b, u, lo, hi, low.carry))

BigSumRange(a, s, b, u, lo, hi, carry) ==
    IF lo > hi THEN [limbs |-> <<>>, carry |-> carry]
    ELSE IF lo = hi
    THEN [limbs |-> <<(BigLimb(a, lo) * s + BigLimb(b, lo) * u + carry) % BigBase>>,
          carry |-> (BigLimb(a, lo) * s + BigLimb(b, lo) * u + carry) \div BigBase]
    ELSE BigSumHigh(BigSumRange(a, s, b, u, lo, (lo + hi) \div 2, carry),
                    a, s, b, u, ((lo + hi) \div 2) + 1, hi)

BigSumCarried(r) == BigTrim(r.limbs \o <<r.carry>>)

\* a * s + b * u, which is not negative; s and u are less than BigBase in size
BigSum(a, s, b, u) ==
    BigSumCarried(BigSumRange(a, s, b, u, 1, IF Len(a) > Len(b) THEN Len(a) ELSE Len(b), 0))

BigAdd(a, b) == BigSum(a, 1, b, 1)

\* a - b for a >= b
BigSub(a, b) == BigSum(a, 1, b, 0 - 1)

BigMulSmall(a, s) == BigSum(a, s, <<>>, 0)

\* -1, 0 or 1 as the limbs lo .. hi of a are less than, equal to or greater
\* than those of b; the higher half decides unless it is equal
RECURSIVE BigCmpRange(_, _, _, _)
BigCmpLow(high, a, b, lo, hi) == IF high # 0 THEN high ELSE BigCmpRange(a, b, lo, hi)

BigCmpRange(a, b, lo, hi) ==
    IF lo > hi THEN 0
    ELSE IF lo = hi
    THEN (IF a[lo] < b[lo] THEN 0 - 1 ELSE IF a[lo] > b[lo] THEN 1 ELSE 0)
    ELSE BigCmpLow(BigCmpRange(a, b, ((lo + hi) \div 2) + 1, hi), a, b, lo, (lo + hi) \div 2)

\* -1, 0 or 1 as a is less than, equal to or greater than b
BigCmp(a, b) ==
    IF Len(a) < Len(b) THEN 0 - 1
    ELSE IF Len(a) > Len(b) THEN 1
    ELSE BigCmpRange(a, b, 1, Len(a))

\* a * BigBase^n
BigShiftLimbs(a, n) == IF a = <<>> THEN <<>> ELSE [i \in 1 .. n |-> 0] \o a

\* a times the limbs lo .. hi of b, at their place in b
RECURSIVE BigMulRange(_, _, _, _)
BigMulRange(a, b, lo, hi) ==
    IF lo = hi THEN BigShiftLimbs(BigMulSmall(a, b[lo]), lo - 1)
    ELSE BigAdd(BigMulRange(a, b, lo, (lo + hi) \div 2),
                BigMulRange(a, b, ((lo + hi) \div 2) + 1, hi))

BigMul(a, b) == IF a = <<>> \/ b = <<>> THEN <<>> ELSE BigMulRange(a, b, 1, Len(b))

BigSquare(a) == BigMul(a, a)

RECURSIVE BigPow10(_)
BigPow10(n) ==
    IF n = 0 THEN <<1>>
    ELSE IF n % 2 = 0 THEN BigSquare(BigPow10(n \div 2))
    ELSE BigMulSmall(BigSquare(BigPow10(n \div 2)), 10)

\* a * 2^k
BigShiftLeft(a, k) == BigShiftLimbs(BigMulSmall(a, 2^(k % 15)), k \div 15)

BigPow2(k) == BigShiftLeft(<<1>>, k)

\* the number of bits of a, 0 for 0
BigBitLen(a) ==
    IF a = <<>> THEN 0
    ELSE 15 * (Len(a) - 1)
         + (CHOOSE k \in 1 .. 15 : 2^(k - 1) <= a[Len(a)] /\ a[Len(a)] < 2^k)

\* bit i of a, bit 0 being the least significant
BigBit(a, i) ==
    IF i \div 15 >= Len(a) THEN 0 ELSE (a[(i \div 15) + 1] \div 2^(i % 15)) % 2

\* the bits of a, most significant first
BigBits(a) == [j \in 1 .. BigBitLen(a) |-> BigBit(a, BigBitLen(a) - j)]

\* the number whose bits, most significant first, are bits (at most 15)
RECURSIVE BitsValue(_)
BitsValue(bits) ==
    IF bits = <<>> THEN 0
    ELSE 2 * BitsValue(SubSeq(bits, 1, Len(bits) - 1)) + bits[Len(bits)]

\* the inverse of BigBits, leading zero bits allowed
BitsToBig(bits) ==
    BigTrim([i \in 1 .. ((Len(bits) + 14) \div 15) |->
                BitsValue(SubSeq(bits,
                                 IF Len(bits) - 15 * i + 1 < 1 THEN 1
                                 ELSE Len(bits) - 15 * i + 1,
                                 Len(bits) - 15 * (i - 1)))])

\* the decimal digits lo .. hi of ds as a number
RECURSIVE BigFromDigitsRange(_, _, _)
BigFromDigitsRange(ds, lo, hi) ==
    IF lo = hi THEN BigTrim(<<DigitValue(ds[lo])>>)
    ELSE BigAdd(BigMul(BigFromDigitsRange(ds, lo, (lo + hi) \div 2),
                       BigPow10(hi - ((lo + hi) \div 2))),
                BigFromDigitsRange(ds, ((lo + hi) \div 2) + 1, hi))

BigFromDigits(ds) == IF ds = <<>> THEN <<>> ELSE BigFromDigitsRange(ds, 1, Len(ds))

\* Long division, a bit of the quotient at a time: at is the remainder r so
\* far and the bits found so far.  BigDivRange finds the bits hi .. lo of the
\* quotient by d, halving the range until it is one bit.
BigDivStep(at, shifted) ==
    IF BigCmp(at.r, shifted) >= 0
    THEN [r |-> BigSub(at.r, shifted), bits |-> Append(at.bits, 1)]
    ELSE [r |-> at.r, bits |-> Append(at.bits, 0)]

\* the bits hi .. lo: all 0 once nothing remains
RECURSIVE BigDivRange(_, _, _, _)
BigDivRange(at, d, hi, lo) ==
    IF at.r = <<>> THEN [r |-> <<>>, bits |-> at.bits \o [i \in 1 .. (hi - lo + 1) |-> 0]]
    ELSE IF hi = lo THEN BigDivStep(at, BigShiftLeft(d, hi))
    ELSE BigDivRange(BigDivRange(at, d, hi, ((hi + lo) \div 2) + 1), d, (hi + lo) \div 2, lo)

\* The bits i, i - 1, .., 0 of the quotient of r by d, for r < d * 2^(i + 1),
\* and whether the division leaves a remainder.
BigDivDone(at) == [bits |-> at.bits, sticky |-> IF at.r = <<>> THEN 0 ELSE 1]

BigDivBits(r, d, i) == BigDivDone(BigDivRange([r |-> r, bits |-> <<>>], d, i, 0))

F64Zero(neg) == [class |-> "finite", neg |-> neg, m |-> <<>>, e |-> 0]

F64Inf(neg) == [class |-> "inf", neg |-> neg, m |-> <<>>, e |-> 0]

\* The sign and the payload of a NaN are not kept: nothing in the program
\* reads them, and Display writes every NaN as NaN.
F64NaN == [class |-> "nan", neg |-> FALSE, m |-> <<>>, e |-> 0]

\* the finite value m * 2^e for a small odd m, or 0
F64(m, e) ==
    [class |-> "finite", neg |-> FALSE, m |-> IF m = 0 THEN <<>> ELSE <<m>>, e |-> e]

\* the number of zero bits at the low end of a, a > 0
BigTrailingZeros(a) ==
    CHOOSE k \in 0 .. BigBitLen(a) :
        BigBit(a, k) = 1 /\ \A j \in 0 .. (k - 1) : BigBit(a, j) = 0

\* The value m * 2^e, m of at most 54 bits and already rounded: infinite
\* from 2^1024 on, else with the zero bits at the low end of m moved into e.
F64Make(neg, m, e) ==
    IF m = <<>> THEN F64Zero(neg)
    ELSE IF BigBitLen(m) + e > 1024 THEN F64Inf(neg)
    ELSE [class |-> "finite", neg |-> neg,
          m |-> BitsToBig(SubSeq(BigBits(m), 1, BigBitLen(m) - BigTrailingZeros(m))),
          e |-> e + BigTrailingZeros(m)]

\* the number of bits F64Round drops: those beyond 53, and those below 2^-1074
F64Dropped(bits, t) ==
    IF Len(bits) - 53 > 0 /\ Len(bits) - 53 >= (0 - 1074) - t THEN Len(bits) - 53
    ELSE IF (0 - 1074) - t > 0 THEN (0 - 1074) - t
    ELSE 0

\* Round to nearest, ties to even.  The exact magnitude is the number of
\* bits (most significant first, the first one 1) times 2^t, plus less than
\* 2^t, and more than nothing when sticky = 1.  kept is what stays of bits
\* and drop the number of bits that go.
F64RoundKept(neg, bits, sticky, t, kept, drop) ==
    IF /\ drop >= 1
       /\ drop <= Len(bits)
       /\ bits[Len(bits) - drop + 1] = 1
       /\ \/ sticky = 1
          \/ \E j \in (Len(bits) - drop + 2) .. Len(bits) : bits[j] = 1
          \/ (kept # <<>> /\ kept[Len(kept)] = 1)
    THEN F64Make(neg, BigAdd(BitsToBig(kept), <<1>>), t + drop)
    ELSE F64Make(neg, BitsToBig(kept), t + drop)

F64RoundDrop(neg, bits, sticky, t, drop) ==
    F64RoundKept(neg, bits, sticky, t,
                 IF drop >= Len(bits) THEN <<>> ELSE SubSeq(bits, 1, Len(bits) - drop),
                 drop)

F64Round(neg, bits, sticky, t) ==
    F64RoundDrop(neg, bits, sticky, t, F64Dropped(bits, t))

\* n / d rounded, n and d positive: 56 bits of the quotient n / (d * 2^t)
\* are computed, of which the first or the second is 1
F64DivideBits(neg, q, t) ==
    F64Round(neg, IF q.bits[1] = 0 THEN Tail(q.bits) ELSE q.bits, q.sticky, t)

F64DivideAt(neg, n, d, t) ==
    F64DivideBits(neg, BigDivBits(IF t < 0 THEN BigShiftLeft(n, 0 - t) ELSE n,
                                  IF t > 0 THEN BigShiftLeft(d, t) ELSE d, 55), t)

F64Divide(neg, n, d) == F64DivideAt(neg, n, d, BigBitLen(n) - BigBitLen(d) - 55)

\* digits without its leading zeros
StripZeros(digits) ==
    IF \A i \in 1 .. Len(digits) : digits[i] = "0" THEN <<>>
    ELSE SubSeq(digits,
                CHOOSE i \in 1 .. Len(digits) :
                    digits[i] # "0" /\ \A j \in 1 .. (i - 1) : digits[j] = "0",
                Len(digits))

\* The f64 nearest to digits * 10^e10, digits without leading zeros.  A value
\* of at least 10^309 is beyond every finite f64, and one below 10^-324 is
\* less than half the least positive f64.
F64Decimal(neg, digits, e10) ==
    IF digits = <<>> THEN F64Zero(neg)
    ELSE IF Len(digits) + e10 >= 310 THEN F64Inf(neg)
    ELSE IF Len(digits) + e10 <= 0 - 324 THEN F64Zero(neg)
    ELSE IF e10 >= 0
    THEN F64Round(neg, BigBits(BigMul(BigFromDigits(digits), BigPow10(e10))), 0, 0)
    ELSE F64Divide(neg, BigFromDigits(digits), BigPow10(0 - e10))

----------------------------------------------------------------------------
(* str::parse::<f64>: after an optional sign, either                        *)
(*   Digit+ | Digit+ '.' Digit* | Digit* '.' Digit+, then an optional       *)
(*   exponent ('e'|'E') ['+'|'-'] Digit+,                                   *)
(* or one of inf, infinity and nan in any case.  The result is the f64      *)
(* nearest to the decimal, ties to even.                                    *)

AllDigits(s) == \A i \in 1 .. Len(s) : IsDigit(s[i])

\* The exponent's digits as parse_scientific accumulates them: it stops
\* adding digits once the number has reached 0x10000.
RECURSIVE DigitsValue(_)
DigitsValueNext(before, digit) ==
    IF before < 65536 THEN 10 * before + DigitValue(digit) ELSE before

DigitsValue(s) ==
    IF s = <<>> THEN 0
    ELSE DigitsValueNext(DigitsValue(SubSeq(s, 1, Len(s) - 1)), s[Len(s)])

\* first index >= i of an element of S in s, 0 if none
IndexOf(s, S, i) ==
    IF \A j \in i .. Len(s) : s[j] \notin S THEN 0
    ELSE CHOOSE j \in i .. Len(s) : s[j] \in S /\ \A h \in i .. (j - 1) : s[h] \notin S

\* s is word in some case; word is in lower case, upper the same in upper
IsWord(s, word, upper) ==
    Len(s) = Len(word) /\ \A i \in 1 .. Len(s) : s[i] \in {word[i], upper[i]}

ParseF64(s) ==
    LET signed  == s # <<>> /\ Head(s) \in {"+", "-"}
        neg     == s # <<>> /\ Head(s) = "-"
        body    == IF signed THEN Tail(s) ELSE s
        ei      == IndexOf(body, {"e", "E"}, 1)
        mant    == IF ei = 0 THEN body ELSE SubSeq(body, 1, ei - 1)
        expo    == IF ei = 0 THEN <<>> ELSE SubSeq(body, ei + 1, Len(body))
        esigned == expo # <<>> /\ Head(expo) \in {"+", "-"}
        edigits == IF esigned THEN Tail(expo) ELSE expo
        di      == IndexOf(mant, {"."}, 1)
        ipart   == IF di = 0 THEN mant ELSE SubSeq(mant, 1, di - 1)
        fpart   == IF di = 0 THEN <<>> ELSE SubSeq(mant, di + 1, Len(mant))
        mantOk  == AllDigits(ipart) /\ AllDigits(fpart) /\ Len(ipart) + Len(fpart) > 0
        expOk   == ei = 0 \/ (edigits # <<>> /\ AllDigits(edigits))
        ev      == IF ei = 0 THEN 0
                   ELSE IF esigned /\ Head(expo) = "-" THEN 0 - DigitsValue(edigits)
                   ELSE DigitsValue(edigits)
    IN  IF mantOk /\ expOk
        THEN [ok |-> TRUE,
              value |-> F64Decimal(neg, StripZeros(ipart \o fpart), ev - Len(fpart))]
        ELSE IF \/ IsWord(body, <<"i", "n", "f">>, <<"I", "N", "F">>)
                \/ IsWord(body, <<"i", "n", "f", "i", "n", "i", "t", "y">>,
                          <<"I", "N", "F", "I", "N", "I", "T", "Y">>)
        THEN [ok |-> TRUE, value |-> F64Inf(neg)]
        ELSE IF IsWord(body, <<"n", "a", "n">>, <<"N", "A", "N">>)
        THEN [ok |-> TRUE, value |-> F64NaN]
        ELSE [ok |-> FALSE, value |-> F64Zero(FALSE)]

----------------------------------------------------------------------------
(* f64 + f64 and f64 - f64: the exact sum, rounded *)

\* a and b are the magnitudes in units of 2^e
f64_add_aligned(a_neg, a, b_neg, b, e) ==
    IF a_neg = b_neg THEN F64Round(a_neg, BigBits(BigAdd(a, b)), 0, e)
    ELSE IF BigCmp(a, b) = 0 THEN F64Zero(FALSE)
    ELSE IF BigCmp(a, b) > 0 THEN F64Round(a_neg, BigBits(BigSub(a, b)), 0, e)
    ELSE F64Round(b_neg, BigBits(BigSub(b, a)), 0, e)

f64_add(a, b) ==
    IF a.class = "nan" \/ b.class = "nan" THEN F64NaN
    ELSE IF a.class = "inf"
    THEN (IF b.class = "inf" /\ a.neg # b.neg THEN F64NaN ELSE a)
    ELSE IF b.class = "inf" THEN b
    ELSE IF a.m = <<>> /\ b.m = <<>> THEN F64Zero(a.neg /\ b.neg)
    ELSE IF a.m = <<>> THEN b
    ELSE IF b.m = <<>> THEN a
    ELSE f64_add_aligned(a.neg, BigShiftLeft(a.m, a.e - Min(a.e, b.e)),
                         b.neg, BigShiftLeft(b.m, b.e - Min(a.e, b.e)),
                         Min(a.e, b.e))

f64_neg(a) == IF a.class = "nan" THEN a ELSE [a EXCEPT !.neg = ~@]

f64_sub(a, b) == f64_add(a, f64_neg(b))

----------------------------------------------------------------------------
(* Display for f64 ("{}", to_string): the shortest decimal digits that read  *)
(* back as the same f64 (format_shortest of core::num::flt2dec), written     *)
(* without an exponent (digits_to_dec_str).                                  *)

\* the exponent of the last bit of the IEEE mantissa of the finite a # 0
F64LastBit(a) ==
    IF a.e + BigBitLen(a.m) - 53 < 0 - 1074 THEN 0 - 1074
    ELSE a.e + BigBitLen(a.m) - 53

\* flt2dec::decode: a = mant * 2^exp, and every decimal between
\* (mant - minus) * 2^exp and (mant + plus) * 2^exp reads back as a, the two
\* ends too when inclusive.  A subnormal has the mantissa 2 * fraction at
\* the exponent -1075 (integer_decode), which is even; a normal one has
\* twice its mantissa, or four times when the mantissa is 2^52, where the
\* f64 below is half as far as the one above.
decode(a) ==
    IF a.e + BigBitLen(a.m) - 53 < 0 - 1074
    THEN [mant |-> BigShiftLeft(a.m, a.e + 1074 + 1), minus |-> <<1>>, plus |-> <<1>>,
          exp |-> 0 - 1075, inclusive |-> TRUE]
    ELSE IF a.m = <<1>>
    THEN [mant |-> BigPow2(54), minus |-> <<1>>, plus |-> <<2>>,
          exp |-> F64LastBit(a) - 2, inclusive |-> TRUE]
    ELSE [mant |-> BigShiftLeft(a.m, a.e - F64LastBit(a) + 1), minus |-> <<1>>,
          plus |-> <<1>>, exp |-> F64LastBit(a) - 1,
          inclusive |-> a.e > F64LastBit(a)]

\* num * 2^exp * 10^-k as the fraction of Numerator(num, exp, k) by Denominator(exp, k)
Numerator(num, exp, k) ==
    BigMul(BigShiftLeft(num, IF exp > 0 THEN exp ELSE 0), BigPow10(IF k < 0 THEN 0 - k ELSE 0))

Denominator(exp, k) ==
    BigMul(BigPow2(IF exp < 0 THEN 0 - exp ELSE 0), BigPow10(IF k > 0 THEN k ELSE 0))

\* `a.cmp(b) < rounding`: a < b, or a <= b when inclusive
Before(a, b, inclusive) ==
    IF inclusive THEN BigCmp(a, b) <= 0 ELSE BigCmp(a, b) < 0

\* high = (mant + plus) * 2^exp is beyond 10^k
HighBeyond(d, k) ==
    Before(Denominator(d.exp, k), Numerator(BigAdd(d.mant, d.plus), d.exp, k), d.inclusive)

\* The k of format_shortest after its fixup: the least k that high is not
\* beyond 10^k.  estimate_scaling_factor gives k or k - 1; the search starts
\* from the number of bits of high.
RECURSIVE format_shortest_k(_, _)
format_shortest_k(d, k) ==
    IF HighBeyond(d, k) THEN format_shortest_k(d, k + 1)
    ELSE IF HighBeyond(d, k - 1) THEN k
    ELSE format_shortest_k(d, k - 1)

estimate_scaling_factor(d) == ((BigBitLen(d.mant) + d.exp) * 1233) \div 4096

\* floor(mant / scale), which is below 10
DigitOf(mant, scale) ==
    CHOOSE digit \in 0 .. 9 :
        /\ BigCmp(BigMulSmall(scale, digit), mant) <= 0
        /\ BigCmp(mant, BigMulSmall(scale, digit + 1)) < 0

\* The digit loop of format_shortest with the rounding up after it; a last
\* digit of 10 is a 9 that was rounded up.  at holds mant, scale, minus and
\* plus; rem is mant after the digit was taken out of it, down and up the
\* two conditions that end the loop.
RECURSIVE format_shortest_loop(_, _)
format_shortest_stop(digit, rem, at, inclusive, down, up) ==
    IF down \/ up
    THEN IF up /\ (~down \/ BigCmp(BigMulSmall(rem, 2), at.scale) >= 0)
         THEN <<digit + 1>>
         ELSE <<digit>>
    ELSE <<digit>> \o format_shortest_loop([mant |-> BigMulSmall(rem, 10),
                                            scale |-> at.scale,
                                            minus |-> BigMulSmall(at.minus, 10),
                                            plus |-> BigMulSmall(at.plus, 10)],
                                           inclusive)

format_shortest_digit(digit, rem, at, inclusive) ==
    format_shortest_stop(digit, rem, at, inclusive,
                         Before(rem, at.minus, inclusive),
                         Before(at.scale, BigAdd(rem, at.plus), inclusive))

format_shortest_loop(at, inclusive) ==
    format_shortest_digit(DigitOf(at.mant, at.scale),
                          BigSub(at.mant, BigMulSmall(at.scale, DigitOf(at.mant, at.scale))),
                          at, inclusive)

\* round_up: the digits plus one in the last place; nines that run to the
\* front become a 1 and zeros, one digit more, and k grows by one
round_up(digits, k) ==
    IF \A i \in 1 .. Len(digits) : digits[i] = 9
    THEN [digits |-> <<1>> \o [i \in 1 .. Len(digits) |-> 0], k |-> k + 1]
    ELSE [digits |->
              [i \in 1 .. Len(digits) |->
                  IF \E j \in (i + 1) .. Len(digits) : digits[j] # 9 THEN digits[i]
                  ELSE IF digits[i] = 9 THEN 0
                  ELSE digits[i] + 1],
          k |-> k]

format_shortest_round(digits, k) ==
    IF digits[Len(digits)] = 10
    THEN round_up(SubSeq(digits, 1, Len(digits) - 1) \o <<9>>, k)
    ELSE [digits |-> digits, k |-> k]

\* the digits d1 .. dn and the k with 0.d1..dn * 10^k the decimal found
format_shortest_at(d, k) ==
    format_shortest_round(
        format_shortest_loop([mant |-> Numerator(d.mant, d.exp, k - 1),
                              scale |-> Denominator(d.exp, k - 1),
                              minus |-> Numerator(d.minus, d.exp, k - 1),
                              plus |-> Numerator(d.plus, d.exp, k - 1)], d.inclusive),
        k)

format_shortest(d) == format_shortest_at(d, format_shortest_k(d, estimate_scaling_factor(d)))

DigitChar(n) == <<"0", "1", "2", "3", "4", "5", "6", "7", "8", "9">>[n + 1]

Zeros(n) == [i \in 1 .. n |-> "0"]

digits_to_dec_str(digits, exp) ==
    IF exp <= 0 THEN <<"0", ".">> \o Zeros(0 - exp) \o digits
    ELSE IF exp < Len(digits)
    THEN SubSeq(digits, 1, exp) \o <<".">> \o SubSeq(digits, exp + 1, Len(digits))
    ELSE digits \o Zeros(exp - Len(digits))

format_shortest_str(r) ==
    digits_to_dec_str([i \in 1 .. Len(r.digits) |-> DigitChar(r.digits[i])], r.k)

f64_to_string(v) ==
    IF v.class = "nan" THEN <<"N", "a", "N">>
    ELSE (IF v.neg THEN <<"-">> ELSE <<>>)
         \o (IF v.class = "inf" THEN <<"i", "n", "f">>
             ELSE IF v.m = <<>> THEN <<"0">>
             ELSE format_shortest_str(format_shortest(decode(v))))

----------------------------------------------------------------------------
(* Lexer (src/phase/lexer.rs) *)

Lexer_new(path, source) ==
    [is_ok |-> TRUE, begin |-> 0, end |-> 0, line |-> 0, column |-> 0,
     start_column |-> 0, source_path |-> path, characters |-> source,
     errors |-> <<>>, panic |-> ""]

Lexer_eof(l) == l.end >= Len(l.characters)

Lexer_advance(l) ==
    IF Lexer_eof(l) THEN l
    ELSE LET c == l.characters[l.end + 1]
         IN  IF c = "\n"
             THEN [l EXCEPT !.end = @ + 1, !.line = @ + 1,
                            !.column = 0, !.start_column = 0]
             ELSE [l EXCEPT !.end = @ + 1, !.column = @ + 1]

\* `characters.len() - 1` underflows on an empty source: an overflow panic in
\* a debug build, an out-of-bounds index (usize::MAX clamped to 0) otherwise.
Lexer_nth_panics(l) == Len(l.characters) = 0

Lexer_nth(l, lookahead) ==
    l.characters[Min(l.end + lookahead, Len(l.characters) - 1) + 1]

RECURSIVE Lexer_whitespace(_)
Lexer_whitespace(l) ==
    IF ~Lexer_eof(l) /\ IsWhitespace(Lexer_nth(l, 0))
    THEN Lexer_whitespace(Lexer_advance(l))
    ELSE l

RECURSIVE AdvanceTimes(_, _)
AdvanceTimes(l, n) == IF n = 0 THEN l ELSE AdvanceTimes(Lexer_advance(l), n - 1)

\* keyword() is called after advance(), so end >= 1.
Lexer_keyword_matches(l, keyword) ==
    IF l.end - 1 + Len(keyword) > Len(l.characters) THEN FALSE
    ELSE SubSeq(l.characters, l.end, l.end - 1 + Len(keyword)) = keyword

Lexer_keyword(l, keyword) ==
    IF Lexer_keyword_matches(l, keyword) THEN AdvanceTimes(l, Len(keyword) - 1) ELSE l

Lexer_lexeme(l) == SubSeq(l.characters, l.begin + 1, l.end)

Lexer_position(l) ==
    [begin |-> l.begin, end |-> l.end, column |-> l.start_column, line |-> l.line]

TwoDotsMessage(l) ==
    [severity |-> "Error", position |-> Lexer_position(l),
     source_path |-> l.source_path,
     message |-> <<"this number has two decimal dots">>]

\* The loop of number(): `p` is read once before the loop; the `self.nth(0);`
\* at the end of the body discards its value.
RECURSIVE Lexer_number_loop(_, _, _)
Lexer_number_loop(l, p, found_dot) ==
    IF ~Lexer_eof(l) /\ (IsDigit(p) \/ p = ".")
    THEN LET l1 == IF p = "." /\ found_dot
                   THEN [l EXCEPT !.errors = Append(@, TwoDotsMessage(l))]
                   ELSE l
             fd == IF p = "." THEN TRUE ELSE found_dot
         IN  Lexer_number_loop(Lexer_advance(l1), p, fd)
    ELSE l

\* Returns the lexer and the token kind; panics when parse::<f64>() fails.
Lexer_number(l) ==
    LET l1     == Lexer_number_loop(l, Lexer_nth(l, 0), FALSE)
        parsed == ParseF64(Lexer_lexeme(l1))
    IN  IF parsed.ok
        THEN [l |-> l1, kind |-> "LiteralNumber", payload |-> <<parsed.value>>]
        ELSE [l |-> [l1 EXCEPT !.panic = "lexeme to be a number"], kind |-> "LiteralNumber",
              payload |-> <<>>]

RECURSIVE Lexer_name_loop(_)
Lexer_name_loop(l) ==
    LET p == Lexer_nth(l, 0)
    IN  IF ~Lexer_eof(l) /\ (IsAlphabetic(p) \/ p = "_")
        THEN Lexer_name_loop(Lexer_advance(l))
        ELSE l

Lexer_name(l) ==
    LET l1 == Lexer_name_loop(l)
    IN  [l |-> l1, kind |-> "Name", payload |-> Lexer_lexeme(l1)]

RECURSIVE SkipLine(_)
SkipLine(l) ==       \* while !self.eof() && self.nth(0) != '\n' { self.advance(); }
    IF ~Lexer_eof(l) /\ Lexer_nth(l, 0) # "\n" THEN SkipLine(Lexer_advance(l)) ELSE l

\* One iteration of the `while self.nth(0) == '#'` loop of comments().
Lexer_comments_body(l) == Lexer_advance(SkipLine(Lexer_advance(l)))

Plain(l, k) == [l |-> l, kind |-> k, payload |-> <<>>]

KwArrow == <<"-", ">">>
KwIf    == <<"i", "f">>
KwElse  == <<"e", "l", "s", "e">>
KwLet   == <<"l", "e", "t">>
KwDef   == <<"d", "e", "f">>
KwTrue  == <<"t", "r", "u", "e">>
KwFalse == <<"f", "a", "l", "s", "e">>

\* The `match self.advance()` of next_token(): l is the lexer after the
\* advance, c the character it returned.  Arms are tried in source order.
Lexer_match(l, c) ==
    IF c = "+" THEN Plain(l, "Plus")
    ELSE IF Lexer_keyword_matches(l, KwArrow) THEN Plain(Lexer_keyword(l, KwArrow), "Arrow")
    ELSE IF c = "-" THEN Plain(l, "Minus")
    ELSE IF c = ":" THEN Plain(l, "Colon")
    ELSE IF c = ";" THEN Plain(l, "Semi")
    ELSE IF c = "," THEN Plain(l, "Comma")
    ELSE IF c = "=" THEN Plain(l, "Equal")
    ELSE IF c = "(" THEN Plain(l, "ParenL")
    ELSE IF c = ")" THEN Plain(l, "ParenR")
    ELSE IF c = "{" THEN Plain(l, "CurlyL")
    ELSE IF c = "}" THEN Plain(l, "CurlyR")
    ELSE IF Lexer_keyword_matches(l, KwIf) THEN Plain(Lexer_keyword(l, KwIf), "KeywordIf")
    ELSE IF Lexer_keyword_matches(l, KwElse) THEN Plain(Lexer_keyword(l, KwElse), "KeywordElse")
    ELSE IF Lexer_keyword_matches(l, KwLet) THEN Plain(Lexer_keyword(l, KwLet), "KeywordLet")
    ELSE IF Lexer_keyword_matches(l, KwDef) THEN Plain(Lexer_keyword(l, KwDef), "KeywordDef")
    ELSE IF Lexer_keyword_matches(l, KwTrue)
         THEN [l |-> Lexer_keyword(l, KwTrue), kind |-> "LiteralBool", payload |-> <<TRUE>>]
    ELSE IF Lexer_keyword_matches(l, KwFalse)
         THEN [l |-> Lexer_keyword(l, KwFalse), kind |-> "LiteralBool", payload |-> <<FALSE>>]
    ELSE IF IsDigit(c) THEN Lexer_number(l)
    ELSE IF IsAlphabetic(c) THEN Lexer_name(l)
    ELSE [l |-> [l EXCEPT !.is_ok = FALSE], kind |-> "Error", payload |-> <<c>>]

Token(l, kind, payload) ==
    [kind |-> kind, payload |-> payload, source_path |-> l.source_path,
     position |-> Lexer_position(l)]

\* TryFrom<&Token> for Message (src/language/token.rs)
TokenMessage(t) ==
    [severity |-> "Error", position |-> t.position, source_path |-> t.source_path,
     message |-> <<"Unexpected character">> \o t.payload]

IsErrorToken(t) == t.kind = "Error"

ErrorMessages(ts) == [i \in 1..Len(SelectSeq(ts, IsErrorToken)) |->
                         TokenMessage(SelectSeq(ts, IsErrorToken)[i])]

\* comments(): while self.nth(0) == '#' { ... }
RECURSIVE Lexer_comments(_)
Lexer_comments(l) ==
    IF Lexer_nth(l, 0) = "#" THEN Lexer_comments(Lexer_comments_body(l)) ELSE l

\* next_token() up to its match: whitespace, comments, and, unless at eof,
\* `self.begin = self.end; self.start_column = self.column`
Lexer_next_token_begin(l) == [l EXCEPT !.begin = l.end, !.start_column = l.column]

\* next_token() from there: the match on advance()
Lexer_next_token_match(l) == Lexer_match(Lexer_advance(l), l.characters[l.end + 1])

\* lex(): the tokens of next_token() until it returns None, then an Eof at
\* self.position(), which is still the span of the token before it.  m is
\* what the match of the token at hand gave.  A panic of number() ends the
\* sequence without an Eof.  lex does not return on an empty source (nth
\* panics) nor on one that ends in a comment with no newline (comments()
\* never leaves its loop); it is applied to neither here.
RECURSIVE Lexer_lex(_)
Lexer_lex_push(m) ==
    IF m.l.panic # "" THEN <<>>
    ELSE <<Token(m.l, m.kind, m.payload)>> \o Lexer_lex(m.l)

Lexer_lex_at(l) ==
    IF Lexer_eof(l) THEN <<Token(l, "Eof", <<>>)>>
    ELSE Lexer_lex_push(Lexer_next_token_match(Lexer_next_token_begin(l)))

Lexer_lex(l) == Lexer_lex_at(Lexer_comments(Lexer_whitespace(l)))

----------------------------------------------------------------------------
(* Parser (src/phase/parser.rs).  The parser is a record p; every operation *)
(* returns the parser it leaves behind (with a mark or a boolean when the   *)
(* Rust function returns one).  Once p.panic is set nothing runs any more.  *)

InitialFuel == 256

OpenEvent(kind) == [ev |-> "Open", kind |-> kind]
CloseEvent      == [ev |-> "Close", kind |-> ""]
AdvanceEvent    == [ev |-> "Advance", kind |-> ""]

Parser_from(source_path, toks) ==
    [source_path |-> source_path, tokens |-> toks, errors |-> <<>>, pos |-> 0,
     fuel |-> InitialFuel, events |-> <<>>, panic |-> ""]

Panicked(p) == p.panic # ""

Panic(p, msg) == IF Panicked(p) THEN p ELSE [p EXCEPT !.panic = msg]

\* assert!(cond)
Require(p, cond, msg) == IF Panicked(p) \/ cond THEN p ELSE Panic(p, msg)

PushError(p, error) ==
    IF Panicked(p) THEN p ELSE [p EXCEPT !.errors = Append(@, error)]

Parser_open(p) ==
    IF Panicked(p) THEN [p |-> p, m |-> 0]
    ELSE [p |-> [p EXCEPT !.events = Append(@, OpenEvent("ErrorTree"))],
          m |-> Len(p.events)]

Parser_close(p, m, kind) ==
    IF Panicked(p) THEN [p |-> p, m |-> m]
    ELSE [p |-> [p EXCEPT !.events =
                    Append([@ EXCEPT ![m + 1] = OpenEvent(kind)], CloseEvent)],
          m |-> m]

\* an open_before that pushes the event instead of inserting it at the mark
Parser_open_beforePushed(p, m) ==
    IF Panicked(p) THEN [p |-> p, m |-> m]
    ELSE [p |-> [p EXCEPT !.events = Append(@, OpenEvent("ErrorTree"))],
          m |-> m]

\* Vec::insert(m.index, Open{ErrorTree})
Parser_open_before(p, m) ==
    IF Panicked(p) THEN [p |-> p, m |-> m]
    ELSE [p |-> [p EXCEPT !.events = SubSeq(@, 1, m) \o <<OpenEvent("ErrorTree")>>
                                        \o SubSeq(@, m + 1, Len(@))],
          m |-> m]

Parser_eof(p) == p.pos = Len(p.tokens) - 1

Parser_advance(p) ==
    IF Panicked(p) THEN p
    ELSE IF Parser_eof(p) THEN Panic(p, "assertion failed: !self.eof()")
    ELSE [p EXCEPT !.fuel = InitialFuel, !.events = Append(@, AdvanceEvent),
                   !.pos = @ + 1]

\* advance_with_error after `let mark = self.open()`
Parser_advance_with_error_opened(o, error) ==
    Parser_close(Parser_advance(PushError(o.p, error)), o.m, "ErrorTree").p

Parser_advance_with_error(p, error) ==
    Parser_advance_with_error_opened(Parser_open(p), error)

Parser_position(p) == p.tokens[p.pos + 1].position

Parser_nth(p, lookahead) ==
    IF Panicked(p) THEN [p |-> p, kind |-> "Eof"]
    ELSE IF p.fuel = 0 THEN [p |-> Panic(p, "parser is stuck"), kind |-> "Eof"]
    ELSE [p |-> [p EXCEPT !.fuel = @ - 1],
          kind |-> IF p.pos + lookahead < Len(p.tokens)
                   THEN p.tokens[p.pos + lookahead + 1].kind
                   ELSE "Eof"]

\* std::mem::discriminant comparison of nth(0) and kind: the payload is ignored
Parser_at_nth(n, kind) == [p |-> n.p, b |-> ~Panicked(n.p) /\ n.kind = kind]

Parser_at(p, kind) == Parser_at_nth(Parser_nth(p, 0), kind)

\* eat after `self.at(kind)`
Parser_eat_at(a) ==
    IF a.b THEN [p |-> Parser_advance(a.p), b |-> TRUE]
    ELSE [p |-> a.p, b |-> FALSE]

Parser_eat(p, kind) == Parser_eat_at(Parser_at(p, kind))

ParserMessage(p, text) ==
    [severity |-> "Error", position |-> Parser_position(p),
     source_path |-> p.source_path, message |-> text]

\* expect after `self.eat(kind)`
Parser_expect_eat(e, kind) ==
    IF e.b THEN e.p
    ELSE PushError(e.p, ParserMessage(e.p, <<"expected", kind>>))

Parser_expect(p, kind) == Parser_expect_eat(Parser_eat(p, kind), kind)

(* Grammar.  A function that binds a value (`let mark = p.open();`, the     *)
(* result of p.at(..)) and uses it more than once is split at the binding:  *)
(* the operator named <function>_<binding> is the rest of the function.     *)

tightness(kind) == IF kind \in {"Plus", "Minus"} THEN 0 ELSE -1     \* -1: None

\* a comparison that lets an operator of equal tightness bind the right operand
right_binds_tighterOrEqual(left, right) ==
    IF tightness(right) = -1 THEN FALSE
    ELSE IF tightness(left) = -1 THEN TRUE
    ELSE tightness(right) >= tightness(left)

right_binds_tighter(left, right) ==
    IF tightness(right) = -1 THEN FALSE
    ELSE IF tightness(left) = -1 THEN TRUE
    ELSE tightness(right) > tightness(left)

\* the assert!(*left == Eof) of right_binds_tighter
right_binds_tighter_panics(left, right) ==
    tightness(right) # -1 /\ tightness(left) = -1 /\ left # "Eof"

name_mark(o) == Parser_close(Parser_advance(o.p), o.m, "Name")

name(p) == name_mark(Parser_open(p))

type_expr_mark(o) == Parser_close(name(o.p).p, o.m, "TypeExpr").p

type_expr(p) == type_expr_mark(Parser_open(p))

\* if !p.at(ParenR) { p.expect(Comma) }; p.close(mark, Param)
param_at(o, a) ==
    Parser_close(IF ~a.b THEN Parser_expect(a.p, "Comma") ELSE a.p, o.m, "Param").p

param_mark(o) ==
    param_at(o, Parser_at(type_expr(Parser_expect(name(o.p).p, "Colon")), "ParenR"))

param(p) == param_mark(Parser_open(p))

RECURSIVE params_loop(_)

\* if p.at(Name) { param(p) } else { break }
params_loop_at_name(n) == IF n.b THEN params_loop(param(n.p)) ELSE n.p

\* while !p.at(ParenR) && !p.eof()
params_loop_at(a) ==
    IF Panicked(a.p) \/ a.b \/ Parser_eof(a.p) THEN a.p
    ELSE params_loop_at_name(Parser_at(a.p, "Name"))

params_loop(p) == params_loop_at(Parser_at(p, "ParenR"))

params_mark(o) ==
    Parser_close(Parser_expect(params_loop(Parser_expect(o.p, "ParenL")), "ParenR"),
                 o.m, "Params").p

params_at(a) ==
    params_mark(Parser_open(
        Require(a.p, a.b, "assertion failed: p.at(TokenKind::ParenL)")))

params(p) == params_at(Parser_at(p, "ParenL"))

RECURSIVE statement(_), statement_loop(_, _), expr_rec(_, _), call_loop(_, _),
          binary_loop(_, _, _), arg_list(_), arg_list_loop(_), arg(_),
          expr_delimited(_)

expression(p) == expr_rec(p, "Eof")

\* lhs = expression(p)
statement_lhs(e) == statement_loop(e.p, e.m)

\* let mark = p.open_before(lhs); p.close(mark, Statement); lhs = expression(p)
statement_loop_mark(ob) ==
    statement_lhs(expression(Parser_close(ob.p, ob.m, "Statement").p))

\* while p.at(Semi)
statement_loop_at(a, lhs) ==
    IF ~a.b THEN a.p ELSE statement_loop_mark(Parser_open_before(a.p, lhs))

statement_loop(p, lhs) == statement_loop_at(Parser_at(p, "Semi"), lhs)

statement(p) == statement_lhs(expression(p))

\* lhs = p.close(mark, Call)
call_loop_lhs(c) == call_loop(c.p, c.m)

\* let mark = p.open_before(lhs); arg_list(p); lhs = p.close(mark, Call)
call_loop_mark(ob) == call_loop_lhs(Parser_close(arg_list(ob.p), ob.m, "Call"))

\* while p.at(ParenL)
call_loop_at(a, lhs) ==
    IF ~a.b THEN [p |-> a.p, m |-> lhs]
    ELSE call_loop_mark(Parser_open_before(a.p, lhs))

call_loop(p, lhs) == call_loop_at(Parser_at(p, "ParenL"), lhs)

\* lhs = p.close(mark, Binary)
binary_loop_lhs(c, left) == binary_loop(c.p, c.m, left)

\* let mark = p.open_before(lhs); p.advance(); expr_rec(p, right); p.close(..)
binary_loop_mark(ob, left, right) ==
    binary_loop_lhs(
        Parser_close(expr_rec(Parser_advance(ob.p), right).p, ob.m, "Binary"),
        left)

\* let right = p.nth(0); if right_binds_tighter(left, right) { .. } else { break }
binary_loop_right(n, lhs, left) ==
    IF Panicked(n.p) THEN [p |-> n.p, m |-> lhs]
    ELSE IF right_binds_tighter_panics(left, n.kind)
    THEN [p |-> Panic(n.p, "assertion failed: *left == Eof"), m |-> lhs]
    ELSE IF right_binds_tighter(left, n.kind)
    THEN binary_loop_mark(Parser_open_before(n.p, lhs), left, n.kind)
    ELSE [p |-> n.p, m |-> lhs]

binary_loop(p, lhs, left) == binary_loop_right(Parser_nth(p, 0), lhs, left)

\* the `loop` of expr_rec, entered with the lhs the call loop leaves
expr_rec_calls(c, left) == binary_loop(c.p, c.m, left)

\* let mut lhs = expr_delimited(p)
expr_rec_lhs(d, left) == expr_rec_calls(call_loop(d.p, d.m), left)

expr_rec(p, left) == expr_rec_lhs(expr_delimited(p), left)

\* if !p.at(ParenR) { p.expect(Comma) }; p.close(mark, Arg)
arg_at(o, a) ==
    Parser_close(IF ~a.b THEN Parser_expect(a.p, "Comma") ELSE a.p, o.m, "Arg").p

arg_mark(o) == arg_at(o, Parser_at(expression(o.p).p, "ParenR"))

arg(p) == arg_mark(Parser_open(p))

\* while !p.at(ParenR) && !p.eof() { arg(p); }
arg_list_loop_at(a) ==
    IF Panicked(a.p) \/ a.b \/ Parser_eof(a.p) THEN a.p
    ELSE arg_list_loop(arg(a.p))

arg_list_loop(p) == arg_list_loop_at(Parser_at(p, "ParenR"))

arg_list_mark(o) ==
    Parser_close(Parser_expect(arg_list_loop(Parser_expect(o.p, "ParenL")), "ParenR"),
                 o.m, "Args").p

arg_list_at(a) ==
    arg_list_mark(Parser_open(Require(a.p, a.b, "assertion failed: p.at(ParenL)")))

arg_list(p) == arg_list_at(Parser_at(p, "ParenL"))

\* match p.nth(0) { .. }
expr_delimited_match(o, n) ==
    IF n.kind \in {"LiteralNumber", "LiteralBool"}
    THEN Parser_close(Parser_advance(n.p), o.m, "Literal")
    ELSE IF n.kind = "Name"
    THEN Parser_close(Parser_advance(n.p), o.m, "Name")
    ELSE IF n.kind = "CurlyL"
    THEN Parser_close(
             Parser_expect(statement(Parser_expect(n.p, "CurlyL")), "CurlyR"),
             o.m, "Block")
    ELSE IF n.kind = "ParenL"
    THEN Parser_close(
             Parser_expect(expression(Parser_expect(n.p, "ParenL")).p, "ParenR"),
             o.m, "Expr")
    ELSE Parser_close(IF ~Parser_eof(n.p) THEN Parser_advance(n.p) ELSE n.p,
                      o.m, "ErrorTree")

expr_delimited_mark(o) == expr_delimited_match(o, Parser_nth(o.p, 0))

expr_delimited(p) == expr_delimited_mark(Parser_open(p))

\* if p.eat(CurlyL) { statement(p); p.expect(CurlyR) }; p.close(mark, Definition)
def_body(o, e2) ==
    Parser_close(IF e2.b THEN Parser_expect(statement(e2.p), "CurlyR") ELSE e2.p,
                 o.m, "Definition").p

\* if p.eat(Colon) { type_expr(p) }
def_return_type(o, e1) ==
    def_body(o, Parser_eat(IF e1.b THEN type_expr(e1.p) ELSE e1.p, "CurlyL"))

\* if p.at(ParenL) { params(p) }
def_params(o, a1) ==
    def_return_type(o, Parser_eat(IF a1.b THEN params(a1.p) ELSE a1.p, "Colon"))

\* p.expect(KeywordDef); name(p)
def_mark(o) ==
    def_params(o, Parser_at(name(Parser_expect(o.p, "KeywordDef")).p, "ParenL"))

\* assert!(p.at(KeywordDef)); let mark = p.open()
def_at(a) ==
    def_mark(Parser_open(Require(a.p, a.b, "assertion failed: p.at(KeywordDef)")))

def(p) == def_at(Parser_at(p, "KeywordDef"))

RECURSIVE file_loop(_)

\* if p.at(KeywordDef) { def(p) } else { p.advance_with_error(..) }
file_loop_at(a) ==
    IF a.b THEN file_loop(def(a.p))
    ELSE file_loop(Parser_advance_with_error(a.p,
             ParserMessage(a.p, <<"expected a function">>)))

file_loop(p) ==                \* while !p.eof() { .. }
    IF Panicked(p) \/ Parser_eof(p) THEN p
    ELSE file_loop_at(Parser_at(p, "KeywordDef"))

file_mark(o) == Parser_close(file_loop(o.p), o.m, "File").p

file(p) == file_mark(Parser_open(p))

----------------------------------------------------------------------------
(* Parser::build_tree *)

TokenChild(t) == [child |-> "Token", v |-> t]
TreeChild(t)  == [child |-> "Tree", v |-> t]

\* a push that puts the child in front of its siblings
PushChildFront(children, c) == <<c>> \o children

\* Vec::push on the children of a tree
PushChild(children, c) == Append(children, c)

\* The `for event in self.events.iter()` loop: i is the index of the next
\* event, stack the tree stack, used the number of tokens taken from the
\* token iterator.
RECURSIVE build_tree_loop(_, _, _, _, _)
build_tree_loop(events, toks, i, stack, used) ==
    IF i > Len(events) THEN [panic |-> "", stack |-> stack, used |-> used]
    ELSE LET event == events[i]
             n     == Len(stack)
         IN  IF event.ev = "Open"
             THEN build_tree_loop(events, toks, i + 1,
                     Append(stack, [kind |-> event.kind, children |-> <<>>]), used)
             ELSE IF event.ev = "Close"
             THEN IF n < 2
                  THEN [panic |-> "called Option::unwrap() on a None value",
                        stack |-> stack, used |-> used]
                  ELSE build_tree_loop(events, toks, i + 1,
                          [SubSeq(stack, 1, n - 1) EXCEPT ![n - 1].children =
                              PushChild(@, TreeChild(stack[n]))], used)
             ELSE IF used >= Len(toks) \/ n < 1
                  THEN [panic |-> "called Option::unwrap() on a None value",
                        stack |-> stack, used |-> used]
                  ELSE build_tree_loop(events, toks, i + 1,
                          [stack EXCEPT ![n].children =
                              PushChild(@, TokenChild(toks[used + 1]))], used + 1)

NoTree == [kind |-> "ErrorTree", children |-> <<>>]

Parser_build_tree(p) ==
    IF p.events = <<>> \/ p.events[Len(p.events)].ev # "Close"
    THEN [p |-> Panic(p, "assertion failed: matches!(self.events.pop(), Some(Event::Close))"),
          tree |-> NoTree]
    ELSE LET events == SubSeq(p.events, 1, Len(p.events) - 1)
             r      == build_tree_loop(events, p.tokens, 1, <<>>, 0)
             p1     == [p EXCEPT !.events = events]
         IN  IF r.panic # "" THEN [p |-> Panic(p1, r.panic), tree |-> NoTree]
             ELSE IF Len(r.stack) # 1
             THEN [p |-> Panic(p1, "assertion failed: stack.len() == 1"), tree |-> NoTree]
             ELSE IF ~(r.used < Len(p.tokens) /\ p.tokens[r.used + 1].kind = "Eof")
             THEN [p |-> Panic(p1, "assertion failed: tokens.next().is_some_and(..)"),
                   tree |-> NoTree]
             ELSE [p |-> p1, tree |-> r.stack[1]]

----------------------------------------------------------------------------
(* AST builder (src/phase/ast_builder.rs) *)

AstErr == [tag |-> "Err", args |-> <<>>]

Built(ast) == [panic |-> "", ast |-> ast]

IndexPanic == [panic |-> "index out of bounds", ast |-> AstErr]

(* build matches tree.kind against ErrorTree, Expr and then `Abstraction`.   *)
(* TreeKind (src/language/cst.rs) has no variant Abstraction, so that        *)
(* pattern is an identifier binding that matches every remaining kind; the   *)
(* arms after it (Application, Let, Name, Literal, BinaryOp, If) are never   *)
(* reached.  children[i] is an indexing expression: it panics when the node  *)
(* has no child i.                                                           *)
RECURSIVE build(_)
build(tree) ==
    LET ch == tree.children
    IN  IF tree.kind = "ErrorTree" THEN Built(AstErr)
        ELSE IF tree.kind = "Expr"
        THEN IF Len(ch) < 2 THEN IndexPanic
             ELSE IF ch[2].child # "Tree" THEN Built(AstErr)
             ELSE LET r == build(ch[2].v)
                  IN  IF r.panic # "" THEN r
                      ELSE Built([tag |-> "Expr", args |-> <<r.ast>>])
        ELSE IF Len(ch) < 2 THEN IndexPanic
             ELSE IF ch[2].child # "Tree" THEN Built(AstErr)
             ELSE IF Len(ch[2].v.children) < 1 THEN IndexPanic
             ELSE IF ch[2].v.children[1].child # "Token" THEN Built(AstErr)
             ELSE IF Len(ch) < 4 THEN IndexPanic
             ELSE IF ch[4].child # "Tree" THEN Built(AstErr)
             ELSE LET r == build(ch[4].v)
                  IN  IF r.panic # "" THEN r
                      ELSE Built([tag |-> "Abstraction",
                                  args |-> <<ch[2].v.children[1].v, r.ast>>])

----------------------------------------------------------------------------
(* Inputs of the lexer specification *)

ExampleSources ==
    { <<"i", "f">>, <<"t", "h", "e", "n">>, <<"e", "l", "s", "e">>,
      <<"l", "e", "t">>, <<"i", "n">>, <<"d", "e", "f">>,
      <<"t", "r", "u", "e">>, <<"f", "a", "l", "s", "e">>,
      <<"1", "2", " ", "+", " ", "3">>, <<"1", " ", "+", " ", "2">>,
      <<"1", "2", ".", "5">>, <<"-", ">">>, <<"-", "1">>,
      <<"i", "f", "f", "y">>, <<"a", "_", "b">>,
      <<"(", "a", ")", ":", ";", ",", "=", "{", "}">>,
      \* a form feed and a no-break space before a name; a line separator;
      \* names of letters beyond ASCII; a multiplication sign
      <<"\f", "a">>, <<"U+00A0", "a">>, <<"U+2028", "a">>, <<"U+00E9">>,
      <<"a", "U+00E9">>, <<"U+03BB", "U+00DF">>, <<"U+4E2D">>, <<"U+00D7">>,
      <<"U+1C89">>,
      \* numbers that are no f64: the nearest one, an infinity and a zero
      <<"0", ".", "1">>, <<"1", "1", "e", "9", "9", "9">>,
      <<"1", "1", "e", "-", "9", "9", "9">> }

Sources == SeqsUpTo(Alphabet, MaxLen) \cup ExampleSources

\* Sources of the two-file inputs of Lexer::run
MultiSources == { <<"a">>, <<"@">>, <<"1", " ", "@", "a">>, <<"#", "@">> }

Inputs == [{1} -> Sources] \cup [{1, 2} -> MultiSources]

EmptyMap == [p \in {} |-> <<>>]

\* a phase object that does not exist (yet)
PhaseOff == [pc |-> "off"]

MapInsert(m, k, v) == [p \in DOMAIN m \cup {k} |-> IF p = k THEN v ELSE m[p]]

----------------------------------------------------------------------------
(* Lexer::run, Lexer::lex and Lexer::next_token as steps *)

LexInit ==
    /\ input \in Inputs
    /\ pending = DOMAIN input
    /\ lx = Lexer_new(0, <<>>)
    /\ tokens = <<>>
    /\ lpc = "idle"
    /\ out = EmptyMap
    /\ errs = <<>>
    /\ result = "none"
    \* the parser has not been constructed
    /\ p_input = EmptyMap
    /\ p_pending = {}
    /\ parser = Parser_from(0, <<>>)
    /\ cst = NoTree
    /\ p_pc = "off"
    /\ p_out = EmptyMap
    /\ p_errs = <<>>
    /\ p_result = "none"
    \* the AST builder has not been constructed
    /\ a_input = EmptyMap
    /\ a_pending = {}
    /\ a_out = EmptyMap
    /\ a_pc = "off"
    /\ a_result = "none"
    \* the later phases and the driver have not been constructed
    /\ tcr = PhaseOff
    /\ sub = PhaseOff
    /\ unif = PhaseOff
    /\ interp = PhaseOff
    /\ driver = PhaseOff
    /\ descent = PhaseOff

\* run: `for source in input { *self = Lexer::new(source); ... self.lex()`
\* (a HashMap is iterated in an unspecified order)
RunNextSource ==
    /\ lpc = "idle"
    /\ \E p \in pending :
          /\ lx' = Lexer_new(p, input[p])
          /\ pending' = pending \ {p}
    /\ tokens' = <<>>
    /\ lpc' = "whitespace"
    /\ UNCHANGED <<input, out, errs, result>>
    /\ UNCHANGED <<parservars, astvars, latervars>>

\* next_token: self.whitespace()
NextTokenWhitespace ==
    /\ lpc = "whitespace"
    /\ lx' = Lexer_whitespace(lx)
    /\ lpc' = "comments"
    /\ UNCHANGED <<input, pending, tokens, out, errs, result>>
    /\ UNCHANGED <<parservars, astvars, latervars>>

\* next_token: self.comments(), one evaluation of its loop condition and,
\* when it holds, one iteration of its body
NextTokenComments ==
    /\ lpc = "comments"
    /\ IF Lexer_nth_panics(lx)
       THEN /\ lx' = [lx EXCEPT !.panic = "attempt to subtract with overflow"]
            /\ lpc' = "returned"
            /\ result' = "panic"
       ELSE IF Lexer_nth(lx, 0) = "#"
       THEN /\ lx' = Lexer_comments_body(lx)
            /\ UNCHANGED <<lpc, result>>
       ELSE /\ lpc' = "dispatch"
            /\ UNCHANGED <<lx, result>>
    /\ UNCHANGED <<input, pending, tokens, out, errs>>
    /\ UNCHANGED <<parservars, astvars, latervars>>

\* next_token returns None at eof; lex leaves its loop and pushes Eof
NextTokenNone ==
    /\ lpc = "dispatch"
    /\ Lexer_eof(lx)
    /\ tokens' = Append(tokens, Token(lx, "Eof", <<>>))
    /\ lpc' = "lexed"
    /\ UNCHANGED <<input, pending, lx, out, errs, result>>
    /\ UNCHANGED <<parservars, astvars, latervars>>

\* next_token: begin/start_column, the match on advance(), Some(Token);
\* lex pushes the token
NextTokenSome ==
    /\ lpc = "dispatch"
    /\ ~Lexer_eof(lx)
    /\ LET l0 == [lx EXCEPT !.begin = lx.end, !.start_column = lx.column]
           c  == l0.characters[l0.end + 1]
           m  == Lexer_match(Lexer_advance(l0), c)
       IN  /\ lx' = m.l
           /\ IF m.l.panic # ""
              THEN /\ lpc' = "returned"
                   /\ result' = "panic"
                   /\ UNCHANGED tokens
              ELSE /\ tokens' = Append(tokens, Token(m.l, m.kind, m.payload))
                   /\ lpc' = "whitespace"
                   /\ UNCHANGED result
    /\ UNCHANGED <<input, pending, out, errs>>
    /\ UNCHANGED <<parservars, astvars, latervars>>

\* run: collect the messages of the Error tokens, out.insert(path, tokens)
RunCollect ==
    /\ lpc = "lexed"
    /\ errs' = IF ~lx.is_ok THEN errs \o ErrorMessages(tokens) ELSE errs
    /\ out' = MapInsert(out, lx.source_path, tokens)
    /\ lpc' = "idle"
    /\ UNCHANGED <<input, pending, lx, tokens, result>>
    /\ UNCHANGED <<parservars, astvars, latervars>>

\* run: the loop is over, return SoftErr(out, errs) or Ok(out)
RunReturn ==
    /\ lpc = "idle"
    /\ pending = {}
    /\ result' = IF errs # <<>> THEN "SoftErr" ELSE "Ok"
    /\ lpc' = "returned"
    /\ UNCHANGED <<input, pending, lx, tokens, out, errs>>
    /\ UNCHANGED <<parservars, astvars, latervars>>

LexNext ==
    \/ RunNextSource
    \/ NextTokenWhitespace
    \/ NextTokenComments
    \/ NextTokenNone
    \/ NextTokenSome
    \/ RunCollect
    \/ RunReturn


----------------------------------------------------------------------------
(* Inputs of the parser specification *)

MaxTokens == 4         \* longest token sequence (before Eof) enumerated over ParserKinds

ParserKinds == {"KeywordDef", "Name", "ParenL", "ParenR", "Colon", "CurlyL",
                "CurlyR", "Semi", "Comma", "Plus", "LiteralNumber"}

ExampleKinds ==
    { <<"KeywordDef", "Name", "CurlyL", "Name", "Semi", "Name", "CurlyR">>,
      <<"KeywordDef", "Name", "CurlyL", "Name", "Plus", "Name", "Minus", "Name", "CurlyR">>,
      <<"KeywordDef", "Name", "CurlyL", "Name", "ParenL", "Name", "Comma",
        "LiteralBool", "ParenR", "CurlyR">>,
      <<"KeywordDef", "Name", "ParenL", "Name", "Colon", "Name", "Comma", "Name",
        "Colon", "Name", "ParenR", "Colon", "Name", "CurlyL", "ParenL", "Name",
        "ParenR", "CurlyR">>,
      <<"KeywordDef", "Name", "CurlyL", "CurlyL", "Name", "CurlyR", "Equal",
        "CurlyR", "KeywordDef", "Name">> }

\* The text the lexer reads back as a token of the kind
KindLexeme(kind) ==
    CASE kind = "KeywordDef" -> KwDef
      [] kind = "KeywordLet" -> KwLet
      [] kind = "KeywordIf" -> KwIf
      [] kind = "KeywordElse" -> KwElse
      [] kind = "LiteralBool" -> KwTrue
      [] kind = "LiteralNumber" -> <<"1">>
      [] kind = "Name" -> <<"a">>
      [] kind = "ParenL" -> <<"(">>
      [] kind = "ParenR" -> <<")">>
      [] kind = "CurlyL" -> <<"{">>
      [] kind = "CurlyR" -> <<"}">>
      [] kind = "Colon" -> <<":">>
      [] kind = "Semi" -> <<";">>
      [] kind = "Comma" -> <<",">>
      [] kind = "Plus" -> <<"+">>
      [] kind = "Minus" -> <<"-">>
      [] kind = "Equal" -> <<"=">>
      [] kind = "Arrow" -> KwArrow

\* A source whose tokens have the kinds: the lexemes, one space between two
\* of them (a name or a number would swallow a neighbour), a single space
\* when there is no token (an empty source panics in nth).
RECURSIVE SourceOfKinds(_)
SourceOfKinds(kinds) ==
    IF kinds = <<>> THEN <<" ">>
    ELSE IF Len(kinds) = 1 THEN KindLexeme(kinds[1])
    ELSE KindLexeme(Head(kinds)) \o <<" ">> \o SourceOfKinds(Tail(kinds))

\* The token sequence Lexer::run hands to Parser::run for such a source.
MkTokens(path, kinds) == Lexer_lex(Lexer_new(path, SourceOfKinds(kinds)))

\* def f { a op1 b op2 c } for operators of equal tightness, the operands
\* being names or numbers
BinaryChain(operand, op1, op2) ==
    <<"KeywordDef", "Name", "CurlyL", operand, op1, operand, op2, operand, "CurlyR">>

BinaryChains ==
    { BinaryChain(operand, op1, op2) :
          operand \in {"Name", "LiteralNumber"}, op1 \in {"Plus", "Minus"},
          op2 \in {"Plus", "Minus"} }

TokenSeqs ==
    {MkTokens(1, ks) : ks \in SeqsUpTo(ParserKinds, MaxTokens) \cup ExampleKinds
                               \cup BinaryChains}

\* the kinds of the sources of a run of two sources
MultiKinds ==
    { <<>>, <<"KeywordDef", "Name">>, <<"Name">>,
      <<"KeywordDef", "Name", "CurlyL", "Plus", "CurlyR">> }

\* Lexer::run's out maps each path to the tokens of its source, and every
\* token carries the path of its source
MultiTokenInputs ==
    { [path \in {1, 2} |-> MkTokens(path, kinds[path])] : kinds \in [{1, 2} -> MultiKinds] }

ParserInputs == [{1} -> TokenSeqs] \cup MultiTokenInputs

----------------------------------------------------------------------------
(* Parser::run and Parser::parse as steps *)

ParserInit ==
    /\ p_input \in ParserInputs
    /\ p_pending = DOMAIN p_input
    /\ parser = Parser_from(0, <<>>)
    /\ cst = NoTree
    /\ p_pc = "idle"
    /\ p_out = EmptyMap
    /\ p_errs = <<>>
    /\ p_result = "none"
    \* the lexer has not been constructed
    /\ input = EmptyMap
    /\ pending = {}
    /\ lx = Lexer_new(0, <<>>)
    /\ tokens = <<>>
    /\ lpc = "off"
    /\ out = EmptyMap
    /\ errs = <<>>
    /\ result = "none"
    \* the AST builder has not been constructed
    /\ a_input = EmptyMap
    /\ a_pending = {}
    /\ a_out = EmptyMap
    /\ a_pc = "off"
    /\ a_result = "none"
    \* the later phases and the driver have not been constructed
    /\ tcr = PhaseOff
    /\ sub = PhaseOff
    /\ unif = PhaseOff
    /\ interp = PhaseOff
    /\ driver = PhaseOff
    /\ descent = PhaseOff

\* run: `for (source_path, tokens) in input { *self = Parser::from(..)`
ParserRunNext ==
    /\ p_pc = "idle"
    /\ \E path \in p_pending :
          /\ parser' = Parser_from(path, p_input[path])
          /\ p_pending' = p_pending \ {path}
    /\ p_pc' = "file"
    /\ UNCHANGED <<p_input, cst, p_out, p_errs, p_result>>
    /\ UNCHANGED <<lexvars, astvars, latervars>>

\* parse: file(self), the grammar pass that fills the event buffer
ParseFile ==
    /\ p_pc = "file"
    /\ parser' = file(parser)
    /\ IF Panicked(parser')
       THEN p_pc' = "returned" /\ p_result' = "panic"
       ELSE p_pc' = "build_tree" /\ UNCHANGED p_result
    /\ UNCHANGED <<p_input, p_pending, cst, p_out, p_errs>>
    /\ UNCHANGED <<lexvars, astvars, latervars>>

\* parse: self.build_tree()
ParseBuildTree ==
    /\ p_pc = "build_tree"
    /\ LET r == Parser_build_tree(parser)
       IN  /\ parser' = r.p
           /\ cst' = r.tree
           /\ IF Panicked(r.p)
              THEN p_pc' = "returned" /\ p_result' = "panic"
              ELSE p_pc' = "parsed" /\ UNCHANGED p_result
    /\ UNCHANGED <<p_input, p_pending, p_out, p_errs>>
    /\ UNCHANGED <<lexvars, astvars, latervars>>

\* run: errs.append(&mut self.errors); out.insert(source_path, cst)
ParserRunCollect ==
    /\ p_pc = "parsed"
    /\ p_errs' = p_errs \o parser.errors
    /\ parser' = [parser EXCEPT !.errors = <<>>]
    /\ p_out' = MapInsert(p_out, parser.source_path, cst)
    /\ p_pc' = "idle"
    /\ UNCHANGED <<p_input, p_pending, cst, p_result>>
    /\ UNCHANGED <<lexvars, astvars, latervars>>

\* run: return SoftErr(out, errs) or Ok(out)
ParserRunReturn ==
    /\ p_pc = "idle"
    /\ p_pending = {}
    /\ p_result' = IF p_errs # <<>> THEN "SoftErr" ELSE "Ok"
    /\ p_pc' = "returned"
    /\ UNCHANGED <<p_input, p_pending, parser, cst, p_out, p_errs>>
    /\ UNCHANGED <<lexvars, astvars, latervars>>

ParserNext ==
    \/ ParserRunNext
    \/ ParseFile
    \/ ParseBuildTree
    \/ ParserRunCollect
    \/ ParserRunReturn

----------------------------------------------------------------------------
(* Inputs of the AST builder specification *)

MaxChildren == 4       \* most children of the root of an enumerated CST

Tok(kind, payload, at) ==
    [kind |-> kind, payload |-> payload, source_path |-> 1,
     position |-> [begin |-> at, end |-> at + 1, column |-> at, line |-> 0]]

TokX      == Tok("Name", <<"x">>, 1)
TokParenL == Tok("ParenL", <<>>, 0)
TokParenR == Tok("ParenR", <<>>, 2)
TokDef    == Tok("KeywordDef", <<>>, 0)

Tree(kind, children) == [kind |-> kind, children |-> children]

NameX == Tree("Name", <<TokenChild(TokX)>>)

ParenX == Tree("Expr", <<TokenChild(TokParenL), TreeChild(NameX), TokenChild(TokParenR)>>)

ChildShapes ==
    { TokenChild(TokParenL), TokenChild(TokParenR),
      TreeChild(NameX), TreeChild(Tree("Name", <<>>)),
      TreeChild(ParenX), TreeChild(Tree("ErrorTree", <<>>)),
      TreeChild(Tree("Definition", <<TokenChild(TokDef), TreeChild(NameX)>>)) }

RootKinds == {"ErrorTree", "File", "Expr", "Definition", "If", "Let"}

Trees == {Tree(k, cs) : k \in RootKinds, cs \in SeqsUpTo(ChildShapes, MaxChildren)}

MultiTrees == { Tree("Expr", <<TokenChild(TokParenL), TreeChild(ParenX), TokenChild(TokParenR)>>),
                Tree("ErrorTree", <<>>), Tree("File", <<>>) }

AstInputs == [{1} -> Trees] \cup [{1, 2} -> MultiTrees]

----------------------------------------------------------------------------
(* AstBuilder::run as steps *)

AstInit ==
    /\ a_input \in AstInputs
    /\ a_pending = DOMAIN a_input
    /\ a_out = EmptyMap
    /\ a_pc = "idle"
    /\ a_result = "none"
    \* the lexer has not been constructed
    /\ input = EmptyMap
    /\ pending = {}
    /\ lx = Lexer_new(0, <<>>)
    /\ tokens = <<>>
    /\ lpc = "off"
    /\ out = EmptyMap
    /\ errs = <<>>
    /\ result = "none"
    \* the parser has not been constructed
    /\ p_input = EmptyMap
    /\ p_pending = {}
    /\ parser = Parser_from(0, <<>>)
    /\ cst = NoTree
    /\ p_pc = "off"
    /\ p_out = EmptyMap
    /\ p_errs = <<>>
    /\ p_result = "none"
    \* the later phases and the driver have not been constructed
    /\ tcr = PhaseOff
    /\ sub = PhaseOff
    /\ unif = PhaseOff
    /\ interp = PhaseOff
    /\ driver = PhaseOff
    /\ descent = PhaseOff

\* run: `for (source_path, cst) in input { let ast = build(cst); out.insert(..) }`
AstRunNext ==
    /\ a_pc = "idle"
    /\ \E path \in a_pending :
          LET r == build(a_input[path])
          IN  /\ a_pending' = a_pending \ {path}
              /\ IF r.panic # ""
                 THEN a_pc' = "returned" /\ a_result' = "panic" /\ UNCHANGED a_out
                 ELSE a_out' = MapInsert(a_out, path, r.ast) /\ UNCHANGED <<a_pc, a_result>>
    /\ UNCHANGED a_input
    /\ UNCHANGED <<lexvars, parservars, latervars>>

\* run: PhaseResult::Ok(out)
AstRunReturn ==
    /\ a_pc = "idle"
    /\ a_pending = {}
    /\ a_result' = "Ok"
    /\ a_pc' = "returned"
    /\ UNCHANGED <<a_input, a_pending, a_out>>
    /\ UNCHANGED <<lexvars, parservars, latervars>>

AstNext ==
    \/ AstRunNext
    \/ AstRunReturn

----------------------------------------------------------------------------
(* Specifications: one per phase, the other phases' variables at rest *)

LexerSpec == LexInit /\ [][LexNext]_vars

ParserSpec == ParserInit /\ [][ParserNext]_vars

AstSpec == AstInit /\ [][AstNext]_vars

----------------------------------------------------------------------------
(* Properties of the lexer *)

Last(s) == s[Len(s)]

Kinds(ts) == [i \in 1..Len(ts) |-> ts[i].kind]

NonEof(ts) == SelectSeq(ts, LAMBDA t : t.kind # "Eof")

Span(t) == t.position.begin .. (t.position.end - 1)

\* End offset of the maximal run of digits, with at most one '.', that
\* starts at offset i of chars
RECURSIVE RunEnd(_, _, _)
RunEnd(chars, i, dot) ==
    IF i >= Len(chars) THEN i
    ELSE IF IsDigit(chars[i + 1]) THEN RunEnd(chars, i + 1, dot)
    ELSE IF chars[i + 1] = "." /\ ~dot THEN RunEnd(chars, i + 1, TRUE)
    ELSE i

RECURSIVE NameEnd(_, _)
NameEnd(chars, i) ==
    IF i < Len(chars) /\ (IsAlphabetic(chars[i + 1]) \/ chars[i + 1] = "_")
    THEN NameEnd(chars, i + 1) ELSE i

RECURSIVE LineEnd(_, _)
LineEnd(chars, i) ==
    IF i < Len(chars) /\ chars[i + 1] # "\n" THEN LineEnd(chars, i + 1) ELSE i

\* Offsets >= i of the characters that are neither whitespace nor part of a
\* '#' comment
RECURSIVE SignificantOffsets(_, _)
SignificantOffsets(chars, i) ==
    IF i >= Len(chars) THEN {}
    ELSE IF IsWhitespace(chars[i + 1]) THEN SignificantOffsets(chars, i + 1)
    ELSE IF chars[i + 1] = "#" THEN SignificantOffsets(chars, LineEnd(chars, i))
    ELSE {i} \cup SignificantOffsets(chars, i + 1)

\* C1: for every source, the empty one included, lex returns (it does not
\* panic) and the returned sequence ends with its only Eof token.
C1_LexEndsWithSingleEof ==
    /\ lx.panic = ""
    /\ lpc = "lexed" =>
          /\ tokens # <<>>
          /\ Last(tokens).kind = "Eof"
          /\ \A i \in 1..(Len(tokens) - 1) : tokens[i].kind # "Eof"

Src12Plus3 == <<"1", "2", " ", "+", " ", "3">>

\* C2: a digit starts exactly one number token that spans the maximal run of
\* digits (with at most one '.'), carries the run's value, and is followed by
\* a token that starts after the run; "12 + 3" gives 12, Plus, 3, Eof.
C2_NumberSpansDigitRun ==
    /\ lx.panic # "lexeme to be a number"
    /\ \A i \in 1..Len(tokens) :
          tokens[i].kind = "LiteralNumber" =>
             LET b == tokens[i].position.begin
                 e == RunEnd(lx.characters, b, FALSE)
             IN  /\ tokens[i].position.end = e
                 /\ tokens[i].payload =
                       <<ParseF64(SubSeq(lx.characters, b + 1, e)).value>>
                 /\ (i < Len(tokens) /\ tokens[i + 1].kind # "Eof")
                       => tokens[i + 1].position.begin >= e
    /\ (lpc = "lexed" /\ lx.characters = Src12Plus3) =>
          /\ Kinds(tokens) = <<"LiteralNumber", "Plus", "LiteralNumber", "Eof">>
          /\ tokens[1].payload = <<F64(3, 2)>>
          /\ tokens[3].payload = <<F64(3, 0)>>

\* C3: in the output of lex the spans of the non-Eof tokens are non-empty,
\* increasing and disjoint, cover exactly the characters that are neither
\* whitespace nor comment, and hold no newline.
C3_SpansCoverSignificantText ==
    lpc = "lexed" =>
       LET ts == NonEof(tokens)
       IN  /\ \A i \in 1..Len(ts) : ts[i].position.begin < ts[i].position.end
           /\ \A i, j \in 1..Len(ts) :
                 i < j => ts[i].position.end <= ts[j].position.begin
           /\ UNION {Span(ts[i]) : i \in 1..Len(ts)}
                 = SignificantOffsets(lx.characters, 0)
           /\ \A i \in 1..Len(ts) : \A o \in Span(ts[i]) :
                 lx.characters[o + 1] # "\n"

ThenWord == <<"t", "h", "e", "n">>
InWord   == <<"i", "n">>

KeywordTable ==
    { <<KwIf, "KeywordIf", <<>>  >>, <<ThenWord, "KeywordThen", <<>> >>,
      <<KwElse, "KeywordElse", <<>> >>, <<KwLet, "KeywordLet", <<>> >>,
      <<InWord, "KeywordIn", <<>> >>, <<KwDef, "KeywordDef", <<>> >>,
      <<KwTrue, "LiteralBool", <<TRUE>> >>, <<KwFalse, "LiteralBool", <<FALSE>> >> }

\* C4: each of if, then, else, let, in, def, true, false alone in a source
\* lexes to its keyword or boolean token, never to Name or Error.
C4_KeywordsLexToKeywordTokens ==
    \A k \in KeywordTable :
       (lpc = "lexed" /\ lx.characters = k[1]) =>
          /\ Len(tokens) = 2
          /\ tokens[1].kind \notin {"Name", "Error"}
          /\ tokens[1].kind = k[2]
          /\ tokens[1].payload = k[3]

Punctuation == {"+", "-", ":", ";", ",", "=", "(", ")", "{", "}"}

\* TRUE iff, reading chars from offset i, some character outside whitespace
\* and comments is met where a token has to start and none can
RECURSIVE StartsNoToken(_, _)
StartsNoToken(chars, i) ==
    IF i >= Len(chars) THEN FALSE
    ELSE LET c == chars[i + 1]
         IN  IF IsWhitespace(c) THEN StartsNoToken(chars, i + 1)
             ELSE IF c = "#" THEN StartsNoToken(chars, LineEnd(chars, i))
             ELSE IF IsDigit(c) THEN StartsNoToken(chars, RunEnd(chars, i, FALSE))
             ELSE IF IsAlphabetic(c) THEN StartsNoToken(chars, NameEnd(chars, i))
             ELSE IF c = "-" /\ i + 1 < Len(chars) /\ chars[i + 2] = ">"
                  THEN StartsNoToken(chars, i + 2)
             ELSE IF c \in Punctuation THEN StartsNoToken(chars, i + 1)
             ELSE TRUE

ErrorTokenCount(m) ==
    LET RECURSIVE Sum(_)
        Sum(P) == IF P = {} THEN 0
                  ELSE LET p == CHOOSE q \in P : TRUE
                       IN  Len(SelectSeq(m[p], IsErrorToken)) + Sum(P \ {p})
    IN  Sum(DOMAIN m)

\* C5: run returns SoftErr exactly when some source holds a character that
\* starts no token and Ok otherwise; the output holds every source's whole
\* token sequence, Eof last, and errs holds one message per Error token, at
\* that token's position.
C5_RunSoftErrIffBadCharacter ==
    (lpc = "returned" /\ result \in {"Ok", "SoftErr"}) =>
       /\ (result = "SoftErr") <=>
             (\E p \in DOMAIN input : StartsNoToken(input[p], 0))
       /\ DOMAIN out = DOMAIN input
       /\ \A p \in DOMAIN out : Last(out[p]).kind = "Eof"
       /\ Len(errs) = ErrorTokenCount(out)
       /\ \A p \in DOMAIN out : \A i \in 1..Len(out[p]) :
             out[p][i].kind = "Error" =>
                \E j \in 1..Len(errs) : errs[j] = TokenMessage(out[p][i])

----------------------------------------------------------------------------
(* Properties of the parser *)

RECURSIVE Leaves(_), LeavesOfChildren(_)
Leaves(tree) == LeavesOfChildren(tree.children)
LeavesOfChildren(cs) ==
    IF cs = <<>> THEN <<>>
    ELSE (IF Head(cs).child = "Token" THEN <<Head(cs).v>> ELSE Leaves(Head(cs).v))
            \o LeavesOfChildren(Tail(cs))

RECURSIVE HasKind(_, _)
HasKind(tree, kind) ==
    \/ tree.kind = kind
    \/ \E i \in 1..Len(tree.children) :
          tree.children[i].child = "Tree" /\ HasKind(tree.children[i].v, kind)

WithoutEof(toks) == SubSeq(toks, 1, Len(toks) - 1)

\* C6: when parse returns, the token leaves of the tree, read left to right,
\* are the input tokens without the final Eof, whatever errors were recorded.
C6_TreeLeavesAreTheTokens ==
    p_pc = "parsed" => Leaves(cst) = WithoutEof(parser.tokens)

\* a parse that recorded errors and wrapped a closed subtree with open_before
C6_Witness ==
    /\ p_pc = "parsed"
    /\ parser.errors # <<>>
    /\ Len(parser.tokens) >= 5
    /\ HasKind(cst, "Binary") \/ HasKind(cst, "Call") \/ HasKind(cst, "Statement")
    /\ Leaves(cst) = WithoutEof(parser.tokens)

\* C7: parse never trips an assertion or panics; in particular advance is
\* never called at Eof.
C7_ParseNeverPanics == parser.panic = ""

DefSemiBody ==
    MkTokens(1, <<"KeywordDef", "Name", "CurlyL", "Name", "Semi", "Name", "CurlyR">>)

\* C8: `def f { a ; b }` parses with no recorded error and no ErrorTree node,
\* into one Definition whose body holds both expressions.
C8_SemicolonBodyParsesCleanly ==
    (p_pc \in {"build_tree", "parsed"} /\ parser.tokens = DefSemiBody) =>
       /\ parser.errors = <<>>
       /\ p_pc = "parsed" =>
             /\ ~HasKind(cst, "ErrorTree")
             /\ Len(cst.children) = 1

----------------------------------------------------------------------------
(* Properties of the AST builder *)

\* C9: for every CST build returns an Ast without panicking, and run
\* returns Ok with one AST per source.
C9_BuildNeverPanics ==
    /\ a_result # "panic"
    /\ a_pc = "returned" => (a_result = "Ok" /\ DOMAIN a_out = DOMAIN a_input)

IsParenExpr(tree) ==
    /\ tree.kind = "Expr"
    /\ Len(tree.children) = 3
    /\ tree.children[1].child = "Token" /\ tree.children[1].v.kind = "ParenL"
    /\ tree.children[2].child = "Tree"
    /\ tree.children[3].child = "Token" /\ tree.children[3].v.kind = "ParenR"

RECURSIVE HasExprWrapper(_)
HasExprWrapper(ast) ==
    \/ ast.tag = "Expr"
    \/ ast.tag = "Abstraction" /\ HasExprWrapper(ast.args[2])

\* C10: lowering the node Expr['(' e ')'] gives exactly the lowering of e,
\* an AST without any Expr wrapper.
C10_ParenthesesCollapse ==
    \A path \in DOMAIN a_out :
       IsParenExpr(a_input[path]) =>
          /\ a_out[path] = build(a_input[path].children[2].v).ast
          /\ ~HasExprWrapper(a_out[path])

----------------------------------------------------------------------------
(* Types (src/language/types.rs).  A type is a record [tag, name, args]:    *)
(* Variable(name), Application(Func{input, output}) with args = <<input,    *)
(* output>>, Application(Bool), Application(Number), and                    *)
(* Quantifier{variable, inner} with name = variable and args = <<inner>>.   *)
(* A Context and a Substitution are HashMaps, here functions.               *)

TVariable(n) == [tag |-> "Variable", name |-> n, args |-> <<>>]

TFunc(i, o) == [tag |-> "Func", name |-> "", args |-> <<i, o>>]

TBool == [tag |-> "Bool", name |-> "", args |-> <<>>]

TNumber == [tag |-> "Number", name |-> "", args |-> <<>>]

TQuantifier(v, inner) == [tag |-> "Quantifier", name |-> v, args |-> <<inner>>]

\* Display for TypeFunc and TType.  The quantifier sign is U+2200 in the
\* source, spelled out here.
RECURSIVE TType_fmt(_)
TType_fmt(t) ==
    IF t.tag = "Variable" THEN t.name
    ELSE IF t.tag = "Func"
         THEN TType_fmt(t.args[1]) \o " -> " \o TType_fmt(t.args[2])
    ELSE IF t.tag = "Bool" THEN "bool"
    ELSE IF t.tag = "Number" THEN "int"
    ELSE "<U+2200>" \o t.name \o " " \o TType_fmt(t.args[1])

RECURSIVE TType_contains(_, _)
TType_contains(self, other) ==
    IF other.tag # "Variable" THEN FALSE
    ELSE IF self.tag = "Variable" THEN self.name = other.name
    ELSE IF self.tag = "Quantifier" THEN TType_contains(self.args[1], other)
    ELSE IF self.tag = "Func"
         THEN TType_contains(self.args[1], other)
              \/ TType_contains(self.args[2], other)
    ELSE FALSE

Substitution_new == EmptyMap

\* Substitution::from([(k, v)])
Substitution_from(k, v) == [x \in {k} |-> v]

Substitution_insert(self, k, v) == MapInsert(self, k, v)

RECURSIVE TType_free_variables(_)
TType_free_variables(self) ==
    IF self.tag = "Variable" THEN {self.name}
    ELSE IF self.tag = "Func"
         THEN TType_free_variables(self.args[1])
              \cup TType_free_variables(self.args[2])
    ELSE IF self.tag = "Quantifier"
         THEN TType_free_variables(self.args[1]) \ {self.name}
    ELSE {}

Context_free_variables(self) ==
    UNION { TType_free_variables(self[k]) : k \in DOMAIN self }

\* impl Substitutable for TType
RECURSIVE TType_apply(_, _)
TType_apply(self, s) ==
    IF self.tag = "Variable"
    THEN IF self.name \in DOMAIN s THEN s[self.name] ELSE self
    ELSE IF self.tag = "Func"
         THEN TFunc(TType_apply(self.args[1], s), TType_apply(self.args[2], s))
    ELSE IF self.tag = "Quantifier"
         THEN TQuantifier(self.name, TType_apply(self.args[1], s))
    ELSE self

\* impl Substitutable for Context
Context_apply(self, s) == [k \in DOMAIN self |-> TType_apply(self[k], s)]

\* impl Substitutable for Substitution: self's entries, extended (and
\* overwritten) by s's entries with self applied to their values
Substitutable_apply(self, s) ==
    [k \in DOMAIN self \cup DOMAIN s |->
        IF k \in DOMAIN s THEN TType_apply(s[k], self) ELSE self[k]]

\* Substitution::apply<T>(&self, v) is v.apply(self) of the trait, for each T
Substitution_apply_TType(self, v) == TType_apply(v, self)

Substitution_apply_Context(self, v) == Context_apply(v, self)

Substitution_applySwapped(self, v) == Substitutable_apply(self, v)

\* s1.apply(&s2) on two substitutions names this inherent method, not the
\* trait's: an inherent method is found before a trait method
Substitution_apply(self, v) == Substitutable_apply(v, self)

----------------------------------------------------------------------------
(* Token::text (src/language/token.rs) and the AST (src/language/ast.rs)    *)

\* Display for TokenKind, as characters
TokenKind_fmt(kind, payload) ==
    CASE kind = "LiteralNumber" -> f64_to_string(payload[1])
      [] kind = "LiteralBool" ->
            IF payload[1] THEN <<"t", "r", "u", "e">>
            ELSE <<"f", "a", "l", "s", "e">>
      [] kind = "Name" -> payload
      [] kind = "KeywordIf" -> <<"i", "f">>
      [] kind = "KeywordElse" -> <<"e", "l", "s", "e">>
      [] kind = "KeywordLet" -> <<"l", "e", "t">>
      [] kind = "Plus" -> <<"+">>
      [] kind = "Minus" -> <<"-">>
      [] kind = "ParenL" -> <<"(">>
      [] kind = "ParenR" -> <<")">>
      [] kind = "Colon" -> <<":">>
      [] kind = "Arrow" -> <<"-", ">">>
      [] kind = "Equal" -> <<"=">>
      [] kind = "Eof" -> <<"<", "e", "o", "f", ">">>
      [] kind = "Error" -> <<"<", "e", "r", "r", "o", "r", ">">>
      [] kind = "KeywordDef" -> <<"d", "e", "f">>
      [] kind = "CurlyL" -> <<"{">>
      [] kind = "CurlyR" -> <<"}">>
      [] kind = "Comma" -> <<",">>
      [] kind = "Semi" -> <<";">>
      [] kind = "KeywordThen" -> <<"t", "h", "e", "n">>

Token_text(t) == TokenKind_fmt(t.kind, t.payload)

Ast_Expr(e) == [tag |-> "Expr", args |-> <<e>>]

Ast_Abstraction(n, e) == [tag |-> "Abstraction", args |-> <<n, e>>]

Ast_Application(e1, e2) == [tag |-> "Application", args |-> <<e1, e2>>]

Ast_Literal(l) == [tag |-> "Literal", args |-> <<l>>]

Ast_Let(n, e1, e2) == [tag |-> "Let", args |-> <<n, e1, e2>>]

Ast_Name(n) == [tag |-> "Name", args |-> <<n>>]

Ast_BinaryOp(op, e1, e2) == [tag |-> "BinaryOp", args |-> <<op, e1, e2>>]

\* impl Into<Position> for Ast
RECURSIVE Ast_into_Position(_)
Ast_into_Position(ast) ==
    CASE ast.tag = "Err" -> [begin |-> 0, end |-> 0, column |-> 0, line |-> 0]
      [] ast.tag = "Expr" -> Ast_into_Position(ast.args[1])
      [] ast.tag = "Abstraction" -> Ast_into_Position(ast.args[2])
      [] ast.tag = "Application" -> Ast_into_Position(ast.args[1])
      [] ast.tag \in {"Literal", "Let", "Name", "BinaryOp"} ->
            ast.args[1].position

----------------------------------------------------------------------------
(* Type checker (src/phase/type_checker.rs).  The checker is a record tc;   *)
(* a method that takes &mut self returns the checker it leaves behind.      *)
(* A Result is a record with ok = TRUE for Ok and ok = FALSE for Err(()).   *)
(* The source names TypeFunc::Int and TokenKind::LiteralInt; the enums      *)
(* define Number and LiteralNumber (displayed as "int"), which is what      *)
(* they are read as here.  tc.hasher, tc.collected and tc.panic are not     *)
(* fields of the struct.  hasher holds, for each HashSet the run will       *)
(* collect and iterate, the order in which it iterates: std leaves the      *)
(* order unspecified and seeds every set on its own, so each set of a run   *)
(* has an order of its own.  collected holds the sizes of the sets          *)
(* collected so far.  panic is set when the run was aborted, and every      *)
(* caller then returns at once, as after Err(()).                           *)

MaxTypeVariables == 24   \* most type variables one run of w draws


\* The iteration orders of a HashSet of n elements, each written as the
\* places its elements are taken from: order[i] says which of the elements
\* left, in ascending order and counted from 0, comes i-th; the last one
\* left needs no choice.  There are n! of them.
HashOrders(n) ==
    { order \in [1 .. (n - 1) -> 0 .. (n - 1)] :
          \A i \in DOMAIN order : order[i] <= n - i }

TypeChecker_new(path, hasher) ==
    [source_path |-> path, errors |-> <<>>, variable_counter |-> 0,
     hasher |-> hasher, collected |-> <<>>, panic |-> ""]

\* format!("t{}", n)
TypeVariableName(n) == "t" \o ToString(n)

VariableIndex(v) ==
    CHOOSE n \in 0 .. MaxTypeVariables : TypeVariableName(n) = v

\* the element of set that has k elements of set below it
HashSet_nth(set, k) ==
    CHOOSE x \in set :
        Cardinality({ y \in set : VariableIndex(y) < VariableIndex(x) }) = k

\* the element the iteration in this order yields first
HashSet_first(set, order) ==
    HashSet_nth(set, IF order = <<>> THEN 0 ELSE Head(order))

RECURSIVE HashSet_into_iter(_, _)
HashSet_into_iter(set, order) ==
    IF set = {} THEN <<>>
    ELSE <<HashSet_first(set, order)>>
         \o HashSet_into_iter(set \ {HashSet_first(set, order)},
                              IF order = <<>> THEN <<>> ELSE Tail(order))

\* Option<TType> as a sequence of at most one type
built_in(token) ==
    IF token.kind \in {"Plus", "Minus"}
    THEN <<TFunc(TNumber, TFunc(TNumber, TNumber))>>
    ELSE <<>>

TypeChecker_variable(tc) ==
    [tc |-> [tc EXCEPT !.variable_counter = @ + 1],
     t  |-> TVariable(TypeVariableName(tc.variable_counter))]

RECURSIVE instantiate(_, _, _)
instantiate_variable(v, p, m) ==
    instantiate(v.tc, p.args[1], Substitution_insert(m, p.name, v.t))

instantiate(tc, p, m) ==
    IF p.tag = "Quantifier"
    THEN instantiate_variable(TypeChecker_variable(tc), p, m)
    ELSE [tc |-> tc, t |-> TType_apply(p, m)]

generalize_quantifiers(ctx, p) ==
    TType_free_variables(p) \ Context_free_variables(ctx)

RECURSIVE generalize_fold(_, _)
generalize_fold(quantifiers, p) ==
    IF quantifiers = <<>> THEN p
    ELSE generalize_fold(Tail(quantifiers), TQuantifier(Head(quantifiers), p))

\* the order in which the next HashSet of the run iterates
TypeChecker_order(tc) == IF tc.hasher = <<>> THEN <<>> ELSE Head(tc.hasher)

\* the checker once that set, of n elements, has been collected
TypeChecker_collected(tc, n) ==
    [tc EXCEPT !.hasher = IF @ = <<>> THEN <<>> ELSE Tail(@),
               !.collected = Append(@, n)]

generalizeNothing(tc, ctx, p) ==
    [tc |-> TypeChecker_collected(tc, Cardinality(generalize_quantifiers(ctx, p))),
     t  |-> p]

generalize(tc, ctx, p) ==
    [tc |-> TypeChecker_collected(tc, Cardinality(generalize_quantifiers(ctx, p))),
     t  |-> generalize_fold(
                HashSet_into_iter(generalize_quantifiers(ctx, p),
                                  TypeChecker_order(tc)), p)]

\* self.errors.push(Message { .. })
TypeChecker_push(tc, position, source_path, message) ==
    [tc EXCEPT !.errors =
        Append(@, [severity |-> "Error", position |-> position,
                   source_path |-> source_path, message |-> message])]

UnifyOk(tc, s) == [tc |-> tc, ok |-> TRUE, s |-> s]

UnifyErr(tc) == [tc |-> tc, ok |-> FALSE, s |-> Substitution_new]

\* unify has no occurs check that fails: once a variable is bound to a type
\* that holds it, unify(a, b) can reach unify(a, b) again and then calls
\* itself for ever; the stack overflows, whatever its size, and the process
\* is aborted
StackOverflow(tc) ==
    UnifyErr([tc EXCEPT !.panic = "stack overflow"])

\* unify_frame is unify with the operands of the calls of unify that are on
\* the stack below it; a call with operands that are on the stack already
\* never returns
RECURSIVE unify_frame(_, _, _, _, _)
unify_s2(r2, s1) ==
    IF ~r2.ok THEN r2 ELSE UnifyOk(r2.tc, Substitution_apply(s1, r2.s))

unify_s1OutputKept(r1, expr, o1, o2, calls) ==
    IF ~r1.ok THEN r1
    ELSE unify_s2(unify_frame(r1.tc, expr, Substitution_apply_TType(r1.s, o1),
                              o2, calls),
                  r1.s)

unify_s1(r1, expr, o1, o2, calls) ==
    IF ~r1.ok THEN r1
    ELSE unify_s2(unify_frame(r1.tc, expr, Substitution_apply_TType(r1.s, o1),
                              Substitution_apply_TType(r1.s, o2), calls),
                  r1.s)

\* the arm (TType::Variable(x), _)
unify_variable(tc, expr, a, b) ==
    UnifyOk(IF TType_contains(a, b)
            THEN TypeChecker_push(tc, Ast_into_Position(expr), tc.source_path,
                                  <<"infinite type detected">>)
            ELSE tc,
            Substitution_from(a.name, b))

unify_frame(tc, expr, a, b, calls) ==
    IF <<a, b>> \in calls THEN StackOverflow(tc)
    ELSE IF a.tag = "Variable" /\ b.tag = "Variable" /\ a.name = b.name
    THEN UnifyOk(tc, Substitution_new)
    ELSE IF a.tag = "Variable" THEN unify_variable(tc, expr, a, b)
    ELSE IF b.tag = "Variable" THEN unify_frame(tc, expr, b, a, calls \cup {<<a, b>>})
    ELSE IF a.tag \in {"Func", "Bool", "Number"}
            /\ b.tag \in {"Func", "Bool", "Number"}
         THEN IF a.tag = "Func" /\ b.tag = "Func"
              THEN unify_s1(unify_frame(tc, expr, a.args[1], b.args[1],
                                        calls \cup {<<a, b>>}),
                            expr, a.args[2], b.args[2], calls \cup {<<a, b>>})
              ELSE IF a = b THEN UnifyOk(tc, Substitution_new)
              ELSE UnifyErr(TypeChecker_push(tc, Ast_into_Position(expr),
                       tc.source_path,
                       <<"expected ", TType_fmt(a), " but found ", TType_fmt(b)>>))
    ELSE UnifyErr(TypeChecker_push(tc, Ast_into_Position(expr), tc.source_path,
             <<"expected ", TType_fmt(a), " found ", TType_fmt(b)>>))

unify(tc, expr, a, b) == unify_frame(tc, expr, a, b, {})

WOk(tc, s, t) == [tc |-> tc, ok |-> TRUE, s |-> s, t |-> t]

WErr(tc) == [tc |-> tc, ok |-> FALSE, s |-> Substitution_new, t |-> TBool]

\* Ok((Substitution::new(), self.instantiate(t, None)))
w_instantiate(i) == WOk(i.tc, Substitution_new, i.t)

RECURSIVE w(_, _, _)
w_literal(tc, l) ==
    IF l.kind = "LiteralNumber" THEN WOk(tc, Substitution_new, TNumber)
    ELSE IF l.kind = "LiteralBool" THEN WOk(tc, Substitution_new, TBool)
    ELSE WErr(tc)

w_name(tc, ctx, n) ==
    IF Token_text(n) \in DOMAIN ctx
    THEN w_instantiate(instantiate(tc, ctx[Token_text(n)], Substitution_new))
    ELSE IF built_in(n) # <<>>
         THEN w_instantiate(instantiate(tc, built_in(n)[1], Substitution_new))
    ELSE WErr(TypeChecker_push(tc, n.position, n.source_path,
                  <<"'">> \o Token_text(n) \o <<"' is not defined here">>))

w_abstraction_e(r, var) ==
    IF ~r.ok THEN r
    ELSE WOk(r.tc, r.s, Substitution_apply_TType(r.s, TFunc(var, r.t)))

w_abstraction_var(v, ctx, n, e) ==
    w_abstraction_e(w(v.tc, MapInsert(ctx, Token_text(n), v.t), e), v.t)

w_application_s3(r3, s1, s2, var) ==
    IF ~r3.ok THEN WErr(r3.tc)
    ELSE WOk(r3.tc, Substitution_apply(r3.s, Substitution_apply(s2, s1)),
             Substitution_apply_TType(r3.s, var))

w_application_var(v, e2, r1, r2) ==
    w_application_s3(
        unify(v.tc, e2, Substitution_apply_TType(r2.s, r1.t), TFunc(r2.t, v.t)),
        r1.s, r2.s, v.t)

w_application_e2(r2, e2, r1) ==
    IF ~r2.ok THEN r2
    ELSE w_application_var(TypeChecker_variable(r2.tc), e2, r1, r2)

w_application_e1(r1, ctx, e2) ==
    IF ~r1.ok THEN r1
    ELSE w_application_e2(w(r1.tc, Substitution_apply_Context(r1.s, ctx), e2),
                          e2, r1)

w_let_e2(r2, s1) ==
    IF ~r2.ok THEN r2 ELSE WOk(r2.tc, Substitution_apply(r2.s, s1), r2.t)

\* new_ctx.insert(n.text(), self.generalize(&new_ctx, &e1_t))
w_let_generalize(g, new_ctx, r1, n, e2) ==
    w_let_e2(w(g.tc, MapInsert(new_ctx, Token_text(n), g.t), e2), r1.s)

w_let_new_ctx(new_ctx, r1, n, e2) ==
    w_let_generalize(generalize(r1.tc, new_ctx, r1.t), new_ctx, r1, n, e2)

w_let_e1(r1, ctx, n, e2) ==
    IF ~r1.ok THEN r1
    ELSE w_let_new_ctx(Substitution_apply_Context(r1.s, ctx), r1, n, e2)

w(tc, ctx, expr) ==
    CASE expr.tag = "Expr" -> w(tc, ctx, expr.args[1])
      [] expr.tag = "Literal" -> w_literal(tc, expr.args[1])
      [] expr.tag = "Name" -> w_name(tc, ctx, expr.args[1])
      [] expr.tag = "Abstraction" ->
            w_abstraction_var(TypeChecker_variable(tc), ctx, expr.args[1],
                              expr.args[2])
      [] expr.tag = "Application" ->
            w_application_e1(w(tc, ctx, expr.args[1]), ctx, expr.args[2])
      [] expr.tag = "Let" ->
            w_let_e1(w(tc, ctx, expr.args[2]), ctx, expr.args[1], expr.args[3])
      [] expr.tag = "Err" -> WErr(tc)
      [] expr.tag = "BinaryOp" ->
            w(tc, ctx,
              Ast_Application(
                  Ast_Application(Ast_Name(expr.args[1]), expr.args[2]),
                  expr.args[3]))

----------------------------------------------------------------------------
(* Inputs of the type checker specification: every AST of at most           *)
(* MaxAstSize nodes over a few tokens, and the expressions the              *)
(* specification discusses                                                  *)

MaxAstSize == 4        \* most nodes of an enumerated AST

TokF    == Tok("Name", <<"f">>, 3)
TokId   == Tok("Name", <<"i", "d">>, 4)
TokY    == Tok("Name", <<"y">>, 5)
TokOne  == Tok("LiteralNumber", <<F64(1, 0)>>, 6)
TokTwo  == Tok("LiteralNumber", <<F64(1, 1)>>, 7)
TokZero == Tok("LiteralNumber", <<F64(0, 0)>>, 8)
TokTrue == Tok("LiteralBool", <<TRUE>>, 9)
TokPlus == Tok("Plus", <<>>, 10)

AstLeaves ==
    { AstErr, Ast_Literal(TokOne), Ast_Literal(TokTrue), Ast_Name(TokX),
      Ast_Name(TokF) }

AstBinders == {TokX, TokF}

RECURSIVE AstsOfSize(_)
AstsOfSize(n) ==
    IF n <= 0 THEN {}
    ELSE IF n = 1 THEN AstLeaves
    ELSE { Ast_Expr(e) : e \in AstsOfSize(n - 1) }
         \cup { Ast_Abstraction(b, e) : b \in AstBinders, e \in AstsOfSize(n - 1) }
         \cup UNION { { Ast_Application(e1, e2) :
                          e1 \in AstsOfSize(i), e2 \in AstsOfSize(n - 1 - i) }
                      : i \in 1 .. n - 2 }
         \cup UNION { { Ast_Let(b, e1, e2) : b \in AstBinders,
                          e1 \in AstsOfSize(i), e2 \in AstsOfSize(n - 1 - i) }
                      : i \in 1 .. n - 2 }
         \cup UNION { { Ast_BinaryOp(TokPlus, e1, e2) :
                          e1 \in AstsOfSize(i), e2 \in AstsOfSize(n - 1 - i) }
                      : i \in 1 .. n - 2 }

\* \x -> x x
SelfApplication ==
    Ast_Abstraction(TokX, Ast_Application(Ast_Name(TokX), Ast_Name(TokX)))

\* \x -> x
Identity == Ast_Abstraction(TokX, Ast_Name(TokX))

\* (id (\y -> y)) (id true): id used at a function type and at bool
UsesIdTwice ==
    Ast_Application(
        Ast_Application(Ast_Name(TokId),
                        Ast_Abstraction(TokY, Ast_Name(TokY))),
        Ast_Application(Ast_Name(TokId), Ast_Literal(TokTrue)))

\* let id = \x -> x in (id (\y -> y)) (id true)
LetPolymorphic == Ast_Let(TokId, Identity, UsesIdTwice)

\* (\id -> (id (\y -> y)) (id true)) (\x -> x)
LambdaMonomorphic ==
    Ast_Application(Ast_Abstraction(TokId, UsesIdTwice), Identity)

\* \f -> \x -> f (f x)
Twice ==
    Ast_Abstraction(TokF,
        Ast_Abstraction(TokX,
            Ast_Application(Ast_Name(TokF),
                Ast_Application(Ast_Name(TokF), Ast_Name(TokX)))))

\* let f = \x -> \y -> \f -> \id -> x in f: four variables are generalized
LetFourQuantifiers ==
    Ast_Let(TokF,
        Ast_Abstraction(TokX,
            Ast_Abstraction(TokY,
                Ast_Abstraction(TokF, Ast_Abstraction(TokId, Ast_Name(TokX))))),
        Ast_Name(TokF))

\* let id = \x -> \y -> \f -> x in id: three variables are generalized
LetThreeQuantifiers ==
    Ast_Let(TokId,
        Ast_Abstraction(TokX,
            Ast_Abstraction(TokY, Ast_Abstraction(TokF, Ast_Name(TokX)))),
        Ast_Name(TokId))

ExampleAsts ==
    { SelfApplication, Identity, LetPolymorphic, LambdaMonomorphic, Twice,
      LetThreeQuantifiers, LetFourQuantifiers }

Asts == UNION { AstsOfSize(n) : n \in 1 .. MaxAstSize } \cup ExampleAsts

\* two-source inputs of TypeChecker::run
MultiAsts == { AstErr, Ast_Literal(TokOne), Ast_Name(TokX), Identity }

TcInputs == [{1} -> Asts] \cup [{1, 2} -> MultiAsts]

\* the orders of sets of these sizes, one after the other
RECURSIVE OrdersOfSizes(_)
OrdersOfSizes(sizes) ==
    IF sizes = <<>> THEN {<<>>}
    ELSE { <<order>> \o rest : order \in HashOrders(Head(sizes)),
                               rest \in OrdersOfSizes(Tail(sizes)) }

\* The orders of the sets of one run of w on an AST.  Which sets a run
\* collects, and of how many elements, does not depend on the order in
\* which the earlier ones were iterated: the order of its quantifiers is
\* all that a generalized type takes from it.
RunHashOrders(ast) ==
    OrdersOfSizes(w(TypeChecker_new(1, <<>>), EmptyMap, ast).tc.collected)

\* an input of TypeChecker::run with the orders of the sets of each source
TcRuns ==
    UNION { { [input |-> i, hasher |-> h] :
                h \in { f \in [DOMAIN i ->
                                   UNION { RunHashOrders(i[path]) : path \in DOMAIN i }] :
                            \A path \in DOMAIN i : f[path] \in RunHashOrders(i[path]) } }
            : i \in TcInputs }

----------------------------------------------------------------------------
(* TypeChecker::run as steps.  tcr.printed keeps what println! wrote: the    *)
(* substitution w returned for each source that checked.                     *)

TypeCheckerInit ==
    /\ tcr \in { [pc |-> "idle", input |-> r.input, pending |-> DOMAIN r.input,
                  hasher |-> r.hasher, checker |-> TypeChecker_new(0, <<>>),
                  out |-> EmptyMap, errs |-> <<>>, printed |-> EmptyMap,
                  result |-> "none"] : r \in TcRuns }
    \* the other phases are not part of this specification
    /\ input = EmptyMap
    /\ pending = {}
    /\ lx = Lexer_new(0, <<>>)
    /\ tokens = <<>>
    /\ lpc = "off"
    /\ out = EmptyMap
    /\ errs = <<>>
    /\ result = "none"
    /\ p_input = EmptyMap
    /\ p_pending = {}
    /\ parser = Parser_from(0, <<>>)
    /\ cst = NoTree
    /\ p_pc = "off"
    /\ p_out = EmptyMap
    /\ p_errs = <<>>
    /\ p_result = "none"
    /\ a_input = EmptyMap
    /\ a_pending = {}
    /\ a_out = EmptyMap
    /\ a_pc = "off"
    /\ a_result = "none"
    /\ sub = PhaseOff
    /\ unif = PhaseOff
    /\ interp = PhaseOff
    /\ driver = PhaseOff
    /\ descent = PhaseOff

\* the body of `for (source_path, ast) in input`, r being what self.w returned
TypeChecker_run_match(run, path, r) ==
    IF r.tc.panic # ""
    THEN [run EXCEPT !.checker = r.tc, !.pc = "returned", !.result = "panic"]
    ELSE IF r.ok
    THEN [run EXCEPT !.pending = @ \ {path},
                     !.checker = r.tc,
                     !.printed = MapInsert(@, path, r.s),
                     !.out = MapInsert(@, path, r.t)]
    ELSE [run EXCEPT !.pending = @ \ {path},
                     !.checker = [r.tc EXCEPT !.errors = <<>>],
                     !.errs = @ \o r.tc.errors]

\* run: `*self = TypeChecker::new(source_path); match self.w(..)`
\* (a HashMap is iterated in an unspecified order)
TcRunNext ==
    /\ tcr.pc = "idle"
    /\ \E path \in tcr.pending :
          tcr' = TypeChecker_run_match(tcr, path,
                     w(TypeChecker_new(path, tcr.hasher[path]), EmptyMap,
                       tcr.input[path]))
    /\ UNCHANGED <<lexvars, parservars, astvars, sub, unif, interp, driver, descent>>

\* run: `if !errs.is_empty() { PhaseResult::Err(errs) } else { Ok(out) }`
TcRunReturn ==
    /\ tcr.pc = "idle"
    /\ tcr.pending = {}
    /\ tcr' = [tcr EXCEPT !.pc = "returned",
                          !.result = IF tcr.errs # <<>> THEN "Err" ELSE "Ok"]
    /\ UNCHANGED <<lexvars, parservars, astvars, sub, unif, interp, driver, descent>>

TypeCheckerNext ==
    \/ TcRunNext
    \/ TcRunReturn

TypeCheckerSpec == TypeCheckerInit /\ [][TypeCheckerNext]_vars

----------------------------------------------------------------------------
(* Properties of the type checker *)

\* the sources TypeChecker::run has visited
TcVisited == DOMAIN tcr.input \ tcr.pending

TcHasMessage(text) ==
    \E i \in DOMAIN tcr.errs : tcr.errs[i].message = text

\* C11: type-checking the self-application \x -> x x fails: run collects an
\* 'infinite type detected' message for it and emits no type for it.
C11_SelfApplicationFails ==
    \A path \in TcVisited :
        tcr.input[path] = SelfApplication =>
            /\ path \notin DOMAIN tcr.out
            /\ TcHasMessage(<<"infinite type detected">>)

\* C12: with id bound by let, a body that applies id to a function and to a
\* boolean type-checks; with id bound by a lambda that is applied to
\* \x -> x, the same body does not: no type is emitted and a message is
\* collected.
C12_LetPolymorphism ==
    \A path \in TcVisited :
        /\ tcr.input[path] = LetPolymorphic =>
              /\ path \in DOMAIN tcr.out
              /\ tcr.out[path] = TBool
              /\ tcr.errs = <<>>
        /\ tcr.input[path] = LambdaMonomorphic =>
              /\ path \notin DOMAIN tcr.out
              /\ tcr.errs # <<>>

C12_Witness ==
    /\ tcr.pc = "returned"
    /\ tcr.input[1] = LetPolymorphic
    /\ tcr.result = "Ok"
    /\ tcr.out[1] = TBool

\* C13: for \f -> \x -> f (f x) the type w returns is (a -> a) -> (a -> a)
\* for one type variable a, and no variable the returned substitution binds
\* is left in it.
C13_PrincipalTypeOfTwice ==
    \A path \in TcVisited :
        tcr.input[path] = Twice =>
            /\ path \in DOMAIN tcr.out
            /\ \E n \in 0 .. MaxTypeVariables :
                  tcr.out[path] =
                      TFunc(TFunc(TVariable(TypeVariableName(n)),
                                  TVariable(TypeVariableName(n))),
                            TFunc(TVariable(TypeVariableName(n)),
                                  TVariable(TypeVariableName(n))))
            /\ TType_free_variables(tcr.out[path])
                   \cap DOMAIN tcr.printed[path] = {}

\* C15: run returns Err, with at least one message, whenever inference
\* failed for a source (an AST that is or holds Ast::Err included); it
\* returns Ok only when no message was collected and the output holds a
\* type for every source.
C15_ErrWheneverInferenceFails ==
    tcr.pc = "returned" =>
        /\ tcr.result \in {"Ok", "Err"}
        /\ tcr.result = "Err" => tcr.errs # <<>>
        /\ DOMAIN tcr.out # DOMAIN tcr.input => tcr.result = "Err"
        /\ tcr.result = "Ok" =>
              /\ tcr.errs = <<>>
              /\ DOMAIN tcr.out = DOMAIN tcr.input

----------------------------------------------------------------------------
(* Inputs of the substitution and unification specifications: the types    *)
(* of at most MaxTypeDepth nested arrows over two variables, bool and int   *)

MaxTypeDepth == 1      \* most nested arrows of an enumerated type

TypeAtoms == { TVariable("t0"), TVariable("t1"), TBool, TNumber }

RECURSIVE TypesOfDepth(_)
TypesOfDepth(n) ==
    IF n <= 0 THEN TypeAtoms
    ELSE TypeAtoms
         \cup { TFunc(i, o) : i \in TypesOfDepth(n - 1), o \in TypesOfDepth(n - 1) }

\* the values a substitution of the inputs binds a variable to
BoundTypes ==
    { TVariable("t0"), TVariable("t1"), TBool,
      TFunc(TVariable("t0"), TVariable("t1")) }

Substitutions ==
    UNION { [dom -> BoundTypes] : dom \in SUBSET {"t0", "t1"} }

\* s1 = {t0 -> t1}, s2 = {t1 -> bool}, applied to t0 -> t1
ChainedType == TFunc(TVariable("t0"), TVariable("t1"))

SubInputs ==
    { [s1 |-> s1, s2 |-> s2, t |-> t] :
        s1 \in Substitutions, s2 \in Substitutions,
        t \in TypesOfDepth(MaxTypeDepth)
              \cup { TQuantifier("t0", ChainedType) } }

----------------------------------------------------------------------------
(* Composing two substitutions as unify does (`s1.apply(&s2)`,              *)
(* type_checker.rs:108) and applying the result, as steps                   *)

SubstInit ==
    /\ sub \in { [pc |-> "idle", s1 |-> i.s1, s2 |-> i.s2, t |-> i.t,
                  composed |-> Substitution_new, applied |-> i.t] :
                 i \in SubInputs }
    \* the other phases are not part of this specification
    /\ input = EmptyMap
    /\ pending = {}
    /\ lx = Lexer_new(0, <<>>)
    /\ tokens = <<>>
    /\ lpc = "off"
    /\ out = EmptyMap
    /\ errs = <<>>
    /\ result = "none"
    /\ p_input = EmptyMap
    /\ p_pending = {}
    /\ parser = Parser_from(0, <<>>)
    /\ cst = NoTree
    /\ p_pc = "off"
    /\ p_out = EmptyMap
    /\ p_errs = <<>>
    /\ p_result = "none"
    /\ a_input = EmptyMap
    /\ a_pending = {}
    /\ a_out = EmptyMap
    /\ a_pc = "off"
    /\ a_result = "none"
    /\ tcr = PhaseOff
    /\ unif = PhaseOff
    /\ interp = PhaseOff
    /\ driver = PhaseOff
    /\ descent = PhaseOff

\* Ok(s1.apply(&s2))
SubCompose ==
    /\ sub.pc = "idle"
    /\ sub' = [sub EXCEPT !.pc = "composed",
                          !.composed = Substitution_apply(sub.s1, sub.s2)]
    /\ UNCHANGED <<lexvars, parservars, astvars, tcr, unif, interp, driver, descent>>

\* composed.apply(&t)
SubApply ==
    /\ sub.pc = "composed"
    /\ sub' = [sub EXCEPT !.pc = "applied",
                          !.applied = Substitution_apply_TType(sub.composed, sub.t)]
    /\ UNCHANGED <<lexvars, parservars, astvars, tcr, unif, interp, driver, descent>>

SubstNext ==
    \/ SubCompose
    \/ SubApply

SubstSpec == SubstInit /\ [][SubstNext]_vars

\* C14: the substitution unify builds with s1.apply(&s2), applied to a type,
\* gives what applying s1 and then s2 to the type gives.
C14_CompositionAppliesS1ThenS2 ==
    sub.pc = "applied" =>
        sub.applied =
            Substitution_apply_TType(sub.s2,
                Substitution_apply_TType(sub.s1, sub.t))

\* both substitutions act: s1 turns t0 into t1, s2 turns t1 into bool
C14_Witness ==
    /\ sub.pc = "applied"
    /\ sub.s1 = Substitution_from("t0", TVariable("t1"))
    /\ sub.s2 = Substitution_from("t1", TBool)
    /\ sub.t = ChainedType
    /\ sub.applied = TFunc(TBool, TBool)

----------------------------------------------------------------------------
(* TypeChecker::unify on a pair of types, in both orders, as steps          *)

\* the second operand ranges over deeper types than the first, so that a
\* variable meets an arrow of arrows
UnifyPartners ==
    TypesOfDepth(2) \cup { TQuantifier("t0", TVariable("t0")) }

UnifyInit ==
    /\ unif \in { [pc |-> "idle", a |-> a, b |-> b,
                   ab |-> UnifyErr(TypeChecker_new(1, <<>>)),
                   ba |-> UnifyErr(TypeChecker_new(1, <<>>))] :
                  a \in TypesOfDepth(MaxTypeDepth), b \in UnifyPartners }
    \* the other phases are not part of this specification
    /\ input = EmptyMap
    /\ pending = {}
    /\ lx = Lexer_new(0, <<>>)
    /\ tokens = <<>>
    /\ lpc = "off"
    /\ out = EmptyMap
    /\ errs = <<>>
    /\ result = "none"
    /\ p_input = EmptyMap
    /\ p_pending = {}
    /\ parser = Parser_from(0, <<>>)
    /\ cst = NoTree
    /\ p_pc = "off"
    /\ p_out = EmptyMap
    /\ p_errs = <<>>
    /\ p_result = "none"
    /\ a_input = EmptyMap
    /\ a_pending = {}
    /\ a_out = EmptyMap
    /\ a_pc = "off"
    /\ a_result = "none"
    /\ tcr = PhaseOff
    /\ sub = PhaseOff
    /\ interp = PhaseOff
    /\ driver = PhaseOff
    /\ descent = PhaseOff

\* self.unify(expr, a, b) on a new checker
UnifyForward ==
    /\ unif.pc = "idle"
    /\ unif' = [unif EXCEPT !.pc = "forward",
                            !.ab = unify(TypeChecker_new(1, <<>>),
                                         Ast_Name(TokX), unif.a, unif.b)]
    /\ UNCHANGED <<lexvars, parservars, astvars, tcr, sub, interp, driver, descent>>

\* self.unify(expr, b, a) on a new checker
UnifyBackward ==
    /\ unif.pc = "forward"
    /\ unif' = [unif EXCEPT !.pc = "both",
                            !.ba = unify(TypeChecker_new(1, <<>>),
                                         Ast_Name(TokX), unif.b, unif.a)]
    /\ UNCHANGED <<lexvars, parservars, astvars, tcr, sub, interp, driver, descent>>

UnifyNext ==
    \/ UnifyForward
    \/ UnifyBackward

UnifySpec == UnifyInit /\ [][UnifyNext]_vars

----------------------------------------------------------------------------
(* Properties of unification *)

\* the variable names of a type, binders included, from left to right
RECURSIVE TypeNames(_)
TypeNames(t) ==
    IF t.tag = "Variable" THEN <<t.name>>
    ELSE IF t.tag = "Func" THEN TypeNames(t.args[1]) \o TypeNames(t.args[2])
    ELSE IF t.tag = "Quantifier" THEN <<t.name>> \o TypeNames(t.args[1])
    ELSE <<>>

\* where a name occurs first among the names of a type
FirstOccurrence(names, v) ==
    CHOOSE i \in DOMAIN names :
        names[i] = v /\ \A j \in 1..(i - 1) : names[j] # v

\* the type with each name replaced by the place of its first occurrence
RECURSIVE Renamed(_, _)
Renamed(t, names) ==
    IF t.tag = "Variable"
    THEN [tag |-> "Variable", args |-> <<>>,
          name |-> FirstOccurrence(names, t.name)]
    ELSE IF t.tag = "Func"
         THEN [tag |-> "Func", name |-> 0,
               args |-> <<Renamed(t.args[1], names), Renamed(t.args[2], names)>>]
    ELSE IF t.tag = "Quantifier"
         THEN [tag |-> "Quantifier", args |-> <<Renamed(t.args[1], names)>>,
               name |-> FirstOccurrence(names, t.name)]
    ELSE [tag |-> t.tag, name |-> 0, args |-> <<>>]

\* two types are equal up to a renaming of variables iff they have the same
\* canonical form
Canonical(t) == Renamed(t, TypeNames(t))

\* what a substitution makes of the pair (a, b)
UnifiedPair(s, a, b) ==
    TFunc(Substitution_apply_TType(s, a), Substitution_apply_TType(s, b))

\* C16: unify(a, b) succeeds exactly when unify(b, a) succeeds, and then the
\* two substitutions map a and b to the same types up to a renaming of type
\* variables.
C16_UnifyIsSymmetric ==
    unif.pc = "both" =>
        /\ unif.ab.ok = unif.ba.ok
        /\ unif.ab.ok =>
              (Canonical(UnifiedPair(unif.ab.s, unif.a, unif.b))
                  = Canonical(UnifiedPair(unif.ba.s, unif.a, unif.b)))

\* two different variables: the two orders bind opposite ways
C16_Witness ==
    /\ unif.pc = "both"
    /\ unif.a = TVariable("t0")
    /\ unif.b = TVariable("t1")
    /\ unif.ab.ok
    /\ unif.ab.s = Substitution_from("t0", TVariable("t1"))
    /\ unif.ba.s = Substitution_from("t1", TVariable("t0"))

----------------------------------------------------------------------------
(* Interpreter (src/phase/interpreter.rs).  A Value is a record [tag, v]:   *)
(* Bool(v), Number(v) with v an f64, and Func(token, ast) with              *)
(* v = <<token, ast>>.  interpret threads the one environment it is given   *)
(* by &mut: it returns the environment it leaves behind together with its   *)
(* Result.  n1 + n2 and n1 - n2 are f64_add and f64_sub.                    *)

Value_Bool(b) == [tag |-> "Bool", v |-> b]

Value_Number(n) == [tag |-> "Number", v |-> n]

Value_Func(t, ast) == [tag |-> "Func", v |-> <<t, ast>>]

InterpretOk(env, v) == [env |-> env, ok |-> TRUE, v |-> v, panic |-> <<>>]

\* Err(())
InterpretErr(env) ==
    [env |-> env, ok |-> FALSE, v |-> Value_Bool(FALSE), panic |-> <<>>]

\* panic!(message)
InterpretPanic(env, message) ==
    [env |-> env, ok |-> FALSE, v |-> Value_Bool(FALSE), panic |-> message]

interpret_literal(t, env) ==
    IF t.kind = "LiteralNumber" THEN InterpretOk(env, Value_Number(t.payload[1]))
    ELSE IF t.kind = "LiteralBool" THEN InterpretOk(env, Value_Bool(t.payload[1]))
    ELSE InterpretPanic(env, <<"SFL ERROR: unhandled literal", t>>)

interpret_name(t, env) ==
    IF Token_text(t) \in DOMAIN env THEN InterpretOk(env, env[Token_text(t)])
    ELSE InterpretPanic(env, <<"TODO: add unknown name error">>)

\* the `match t.kind` of the BinaryOp arm
interpret_binary_match(t, r1, r2, env) ==
    IF t.kind \in {"Plus", "Minus"}
    THEN IF r1.tag # "Number" \/ r2.tag # "Number"
         THEN InterpretPanic(env, <<"SFL ERROR: Typechecker missed binary op", t>>)
         ELSE InterpretOk(env, Value_Number(IF t.kind = "Plus"
                                            THEN f64_add(r1.v, r2.v)
                                            ELSE f64_sub(r1.v, r2.v)))
    ELSE InterpretPanic(env, <<"SFL ERROR: unhandled binary operator", t>>)

RECURSIVE interpret(_, _, _)
interpret_let_r1(r1, t, e2, calls) ==
    IF ~r1.ok THEN r1
    ELSE interpret(e2, MapInsert(r1.env, Token_text(t), r1.v), calls)

interpret_binary_r2(r2, t, r1) ==
    IF ~r2.ok THEN r2 ELSE interpret_binary_match(t, r1, r2.v, r2.env)

interpret_binary_r1(r1, t, e2, calls) ==
    IF ~r1.ok THEN r1
    ELSE interpret_binary_r2(interpret(e2, r1.env, calls), t, r1.v)

interpret_application_v2(r2, t, ast, calls) ==
    IF ~r2.ok THEN r2
    ELSE interpret(ast, MapInsert(r2.env, Token_text(t), r2.v), calls)

interpret_application_e1(r1, e1, e2, calls) ==
    IF ~r1.ok THEN r1
    ELSE IF r1.v.tag = "Func"
         THEN interpret_application_v2(interpret(e2, r1.env, calls),
                                       r1.v.v[1], r1.v.v[2], calls)
    ELSE InterpretPanic(r1.env, <<"SFL ERROR: cannot apply", e1>>)

\* the operands of the calls of interpret on the stack, this one included
Called(calls, ast, environment) == calls \cup {<<ast, environment>>}

\* calls holds the operands of the calls of interpret that are on the stack
\* below this one: interpret is a function of its operands, so a call with
\* operands that are on the stack already calls itself for ever; the stack
\* overflows, whatever its size, and the process is aborted
interpret(ast, environment, calls) ==
    IF <<ast, environment>> \in calls
    THEN InterpretPanic(environment, <<"stack overflow">>)
    ELSE CASE ast.tag = "Err" -> InterpretErr(environment)
           [] ast.tag = "Expr" ->
                 interpret(ast.args[1], environment,
                           Called(calls, ast, environment))
           [] ast.tag = "Literal" -> interpret_literal(ast.args[1], environment)
           [] ast.tag = "Name" -> interpret_name(ast.args[1], environment)
           [] ast.tag = "Let" ->
                 interpret_let_r1(interpret(ast.args[2], environment,
                                            Called(calls, ast, environment)),
                                  ast.args[1], ast.args[3],
                                  Called(calls, ast, environment))
           [] ast.tag = "BinaryOp" ->
                 interpret_binary_r1(interpret(ast.args[2], environment,
                                               Called(calls, ast, environment)),
                                     ast.args[1], ast.args[3],
                                     Called(calls, ast, environment))
           [] ast.tag = "Abstraction" ->
                 InterpretOk(environment, Value_Func(ast.args[1], ast.args[2]))
           [] ast.tag = "Application" ->
                 interpret_application_e1(
                     interpret(ast.args[1], environment,
                               Called(calls, ast, environment)),
                     ast.args[1], ast.args[2], Called(calls, ast, environment))

\* Interpreter::run on the entry point: self.errors stays empty, so run
\* returns PhaseResult::Ok(result.unwrap()); unwrap panics on Err(())
Interpreter_run_result(r) ==
    IF r.panic # <<>> THEN [result |-> "panic", v |-> Value_Bool(FALSE), panic |-> r.panic]
    ELSE IF ~r.ok
         THEN [result |-> "panic", v |-> Value_Bool(FALSE),
               panic |-> <<"called Result::unwrap() on an Err value">>]
    ELSE [result |-> "Ok", v |-> r.v, panic |-> <<>>]

\* path 1 stands for "./main.sfl"; input.get(..).unwrap() panics without it
Interpreter_run(in) ==
    IF 1 \notin DOMAIN in
    THEN [result |-> "panic", v |-> Value_Bool(FALSE),
          panic |-> <<"called Option::unwrap() on a None value">>]
    ELSE Interpreter_run_result(interpret(in[1], EmptyMap, {}))

----------------------------------------------------------------------------
(* TypeChecker::run and Interpreter::run on the same input, one AST for      *)
(* "./main.sfl".  The two are the run methods of their phases; run of        *)
(* main.rs calls neither (its lines 80-104 are comments), so they are        *)
(* applied here to every input one by one, in either order, and not as       *)
(* part of the driver.                                                       *)

\* let x = 1 in let f = \y -> x in let x = 2 in f 0
ShadowedClosure ==
    Ast_Let(TokX, Ast_Literal(TokOne),
        Ast_Let(TokF, Ast_Abstraction(TokY, Ast_Name(TokX)),
            Ast_Let(TokX, Ast_Literal(TokTwo),
                Ast_Application(Ast_Name(TokF), Ast_Literal(TokZero)))))

\* let x = 1 in ((\x -> 1) true) + x
ClobberedOperand ==
    Ast_Let(TokX, Ast_Literal(TokOne),
        Ast_BinaryOp(TokPlus,
            Ast_Application(Ast_Abstraction(TokX, Ast_Literal(TokOne)),
                            Ast_Literal(TokTrue)),
            Ast_Name(TokX)))

\* (\x -> x x) (\x -> x x)
Omega == Ast_Application(SelfApplication, SelfApplication)

TokFive == Tok("LiteralNumber", <<F64(5, 0)>>, 11)

\* let y = 5 in ((\y -> y) 1) + y
ScopedParameter ==
    Ast_Let(TokY, Ast_Literal(TokFive),
        Ast_BinaryOp(TokPlus,
            Ast_Application(Ast_Abstraction(TokY, Ast_Name(TokY)),
                            Ast_Literal(TokOne)),
            Ast_Name(TokY)))

\* the tokens of 0.1, 0.2 and 0.3, with the payloads the lexer gives them
TokTenth == Tok("LiteralNumber", <<ParseF64(<<"0", ".", "1">>).value>>, 12)
TokTwoTenths == Tok("LiteralNumber", <<ParseF64(<<"0", ".", "2">>).value>>, 13)
TokThreeTenths == Tok("LiteralNumber", <<ParseF64(<<"0", ".", "3">>).value>>, 14)
TokMinus == Tok("Minus", <<>>, 15)

\* 0.1 + 0.2, which is 0.30000000000000004
RoundedSum ==
    Ast_BinaryOp(TokPlus, Ast_Literal(TokTenth), Ast_Literal(TokTwoTenths))

\* 0.3 - 0.1, which is 0.19999999999999998
RoundedDifference ==
    Ast_BinaryOp(TokMinus, Ast_Literal(TokThreeTenths), Ast_Literal(TokTenth))

InterpAsts ==
    Asts \cup { ShadowedClosure, ClobberedOperand, Omega, ScopedParameter,
                RoundedSum, RoundedDifference }

InterpInit ==
    /\ interp \in { [pc |-> "idle", ast |-> a,
                     outcome |-> [result |-> "none", v |-> Value_Bool(FALSE),
                                  panic |-> <<>>]] :
                    a \in InterpAsts }
    /\ tcr \in { [pc |-> "idle", input |-> [path \in {1} |-> interp.ast],
                  pending |-> {1}, hasher |-> [path \in {1} |-> h],
                  checker |-> TypeChecker_new(0, <<>>),
                  out |-> EmptyMap, errs |-> <<>>, printed |-> EmptyMap,
                  result |-> "none"] : h \in RunHashOrders(interp.ast) }
    \* the other phases are not part of this specification
    /\ input = EmptyMap
    /\ pending = {}
    /\ lx = Lexer_new(0, <<>>)
    /\ tokens = <<>>
    /\ lpc = "off"
    /\ out = EmptyMap
    /\ errs = <<>>
    /\ result = "none"
    /\ p_input = EmptyMap
    /\ p_pending = {}
    /\ parser = Parser_from(0, <<>>)
    /\ cst = NoTree
    /\ p_pc = "off"
    /\ p_out = EmptyMap
    /\ p_errs = <<>>
    /\ p_result = "none"
    /\ a_input = EmptyMap
    /\ a_pending = {}
    /\ a_out = EmptyMap
    /\ a_pc = "off"
    /\ a_result = "none"
    /\ sub = PhaseOff
    /\ unif = PhaseOff
    /\ driver = PhaseOff
    /\ descent = PhaseOff

\* Interpreter::run on the input
InterpRun ==
    /\ interp.pc = "idle"
    /\ interp' = [interp EXCEPT !.pc = "ran",
                     !.outcome = Interpreter_run([path \in {1} |-> interp.ast])]
    /\ UNCHANGED <<lexvars, parservars, astvars, tcr, sub, unif, driver, descent>>

\* the steps of TypeChecker::run, and Interpreter::run
InterpNext ==
    \/ TcRunNext
    \/ TcRunReturn
    \/ InterpRun

InterpSpec == InterpInit /\ [][InterpNext]_vars

----------------------------------------------------------------------------
(* Properties of the interpreter *)

\* C17: a function value resolves its free variables where the abstraction
\* was evaluated: let x = 1 in let f = \y -> x in let x = 2 in f 0
\* evaluates to 1.
C17_ClosureKeepsDefiningEnvironment ==
    interp.pc = "ran" /\ interp.ast = ShadowedClosure =>
        /\ interp.outcome.result = "Ok"
        /\ interp.outcome.v.tag = "Number"
        /\ interp.outcome.v.v = F64(1, 0)

\* TypeChecker::run returned Ok with a type for the expression
InterpAccepted ==
    /\ tcr.pc = "returned"
    /\ tcr.result = "Ok"
    /\ 1 \in DOMAIN tcr.out

\* C18: interpreting an expression the type checker accepted never panics:
\* every name is bound, every value applied is a function, both operands of
\* + and - are numbers.  (An evaluation that never returns is no panic.)
C18_AcceptedExpressionsNeverPanic ==
    interp.pc = "ran" /\ InterpAccepted =>
        \/ interp.outcome.result = "Ok"
        \/ interp.outcome.panic = <<"stack overflow">>

----------------------------------------------------------------------------
(* Message::format_errors (src/message.rs) and complete_phase (src/main.rs) *)
(* What format writes is not kept; what is kept is whether it panics.       *)

RECURSIVE CountNewlines(_)
CountNewlines(source) ==
    IF source = <<>> THEN 0
    ELSE (IF Head(source) = "\n" THEN 1 ELSE 0) + CountNewlines(Tail(source))

\* source.lines().count(): a last line needs no newline, and an empty last
\* line is no line
str_lines_count(source) ==
    CountNewlines(source)
        + (IF source # <<>> /\ source[Len(source)] # "\n" THEN 1 ELSE 0)

\* Message::format: "" when it returns, else the panic
Message_format(self, source) ==
    IF self.position.line >= str_lines_count(source)
    THEN "source to contain line from position"
    ELSE IF self.position.end < self.position.begin
         THEN "attempt to subtract with overflow"
    ELSE ""

RECURSIVE Message_format_errors(_, _)
Message_format_errors(sources, errors) ==
    IF errors = <<>> THEN ""
    ELSE IF Head(errors).source_path \notin DOMAIN sources
         THEN "source file to be present"
    ELSE IF Message_format(Head(errors), sources[Head(errors).source_path]) # ""
         THEN Message_format(Head(errors), sources[Head(errors).source_path])
    ELSE Message_format_errors(sources, Tail(errors))

PhaseResult_Ok(r) == [kind |-> "Ok", result |-> r, errors |-> <<>>]

PhaseResult_SoftErr(r, errors) ==
    [kind |-> "SoftErr", result |-> r, errors |-> errors]

PhaseResult_Err(errors) == [kind |-> "Err", result |-> EmptyMap, errors |-> errors]

\* Result<R, ()>, or the panic of a print
CompleteOk(r) == [ok |-> TRUE, result |-> r, panic |-> ""]

CompleteErr == [ok |-> FALSE, result |-> EmptyMap, panic |-> ""]

CompletePanic(message) == [ok |-> FALSE, result |-> EmptyMap, panic |-> message]

complete_phaseAlwaysResilient(sources, resilient, phase_result) ==
    IF phase_result.kind = "Ok" THEN CompleteOk(phase_result.result)
    ELSE IF Message_format_errors(sources, phase_result.errors) # ""
         THEN CompletePanic(Message_format_errors(sources, phase_result.errors))
    ELSE IF phase_result.kind = "SoftErr"
         THEN CompleteOk(phase_result.result)
    ELSE CompleteErr

complete_phase(sources, resilient, phase_result) ==
    IF phase_result.kind = "Ok" THEN CompleteOk(phase_result.result)
    ELSE IF Message_format_errors(sources, phase_result.errors) # ""
         THEN CompletePanic(Message_format_errors(sources, phase_result.errors))
    ELSE IF phase_result.kind = "SoftErr"
         THEN IF ~resilient THEN CompleteErr
              ELSE CompleteOk(phase_result.result)
    ELSE CompleteErr

\* what Lexer::run / Parser::run returned, as a PhaseResult
PhaseResult_of(kind, r, errors) ==
    IF kind = "Ok" THEN PhaseResult_Ok(r) ELSE PhaseResult_SoftErr(r, errors)

----------------------------------------------------------------------------
(* The driver: run of src/main.rs, as steps around the steps of the lexer   *)
(* and of the parser.  The later phases are commented out in run            *)
(* (main.rs:80-104).  Path 1 stands for "./main.sfl".  main passes          *)
(* Config::default(), whose resilient is true; run takes any Config.        *)

MaxDriverLen == 3      \* longest entry point enumerated over Alphabet

\* def a{a}  and  def a{ followed by a newline
DriverExamples ==
    { <<"d", "e", "f", " ", "a", "{", "a", "}">>,
      <<"d", "e", "f", " ", "a", "{", "\n">>,
      <<"(", "\n">>, <<"(", "a", ")">> }

DriverSources ==
    SeqsUpTo(Alphabet, MaxDriverLen) \cup ExampleSources \cup DriverExamples

\* What run finds in the current directory: entry is "text" when main.sfl
\* is there and holds text, "unreadable" when it is there and
\* read_to_string fails on it (a directory, bytes that are no UTF-8, a
\* dangling link), "missing" when no entry of that name is listed, and
\* "unlisted" when the directory itself cannot be read.
DriverInit ==
    /\ driver \in { [pc |-> "start", resilient |-> r, entry |-> "text",
                     contents |-> c, printed |-> FALSE, result |-> "none"] :
                    r \in BOOLEAN, c \in DriverSources }
               \cup { [pc |-> "start", resilient |-> r, entry |-> e,
                       contents |-> <<>>, printed |-> FALSE, result |-> "none"] :
                      r \in BOOLEAN, e \in {"missing", "unreadable", "unlisted"} }
    \* no phase has been constructed
    /\ input = EmptyMap
    /\ pending = {}
    /\ lx = Lexer_new(0, <<>>)
    /\ tokens = <<>>
    /\ lpc = "off"
    /\ out = EmptyMap
    /\ errs = <<>>
    /\ result = "none"
    /\ p_input = EmptyMap
    /\ p_pending = {}
    /\ parser = Parser_from(0, <<>>)
    /\ cst = NoTree
    /\ p_pc = "off"
    /\ p_out = EmptyMap
    /\ p_errs = <<>>
    /\ p_result = "none"
    /\ a_input = EmptyMap
    /\ a_pending = {}
    /\ a_out = EmptyMap
    /\ a_pc = "off"
    /\ a_result = "none"
    /\ tcr = PhaseOff
    /\ sub = PhaseOff
    /\ unif = PhaseOff
    /\ interp = PhaseOff
    /\ descent = PhaseOff

\* run: read_dir("./").unwrap(); find main.sfl or return Err(());
\* read_to_string(..).expect(..); sources.insert(..);
\* Lexer::new().run(&config, &sources) starts
DriverReadEntryPoint ==
    /\ driver.pc = "start"
    /\ IF driver.entry \in {"unlisted", "unreadable"}
       THEN /\ driver' = [driver EXCEPT !.pc = "done", !.result = "panic"]
            /\ UNCHANGED <<input, pending, lpc>>
       ELSE IF driver.entry = "missing"
       THEN /\ driver' = [driver EXCEPT !.pc = "done", !.result = "Err"]
            /\ UNCHANGED <<input, pending, lpc>>
       ELSE /\ driver' = [driver EXCEPT !.pc = "lexing"]
            /\ input' = [p \in {1} |-> driver.contents]
            /\ pending' = {1}
            /\ lpc' = "idle"
    /\ UNCHANGED <<lx, tokens, out, errs, result>>
    /\ UNCHANGED <<parservars, astvars, tcr, sub, unif, interp, descent>>

\* the outcome of `complete_phase(..)?` for the driver: go on, return
\* Err(()), or die in the panic of the phase or of the print
DriverAfter(cp, next) ==
    IF cp.panic # "" THEN [driver EXCEPT !.pc = "done", !.result = "panic"]
    ELSE IF ~cp.ok THEN [driver EXCEPT !.pc = "done", !.result = "Err"]
    ELSE [driver EXCEPT !.pc = next]

\* run: `let lexer_result = complete_phase(&sources, &config, lexer_result)?;`
\* and Parser::new().run(&config, &lexer_result) starts
DriverCompleteLexer ==
    /\ driver.pc = "lexing"
    /\ result # "none"
    /\ IF result = "panic"
       THEN /\ driver' = [driver EXCEPT !.pc = "done", !.result = "panic"]
            /\ UNCHANGED <<p_input, p_pending, p_pc>>
       ELSE /\ driver' = DriverAfter(
                    complete_phase(input, driver.resilient,
                                   PhaseResult_of(result, out, errs)),
                    "parsing")
            /\ IF driver'.pc = "parsing"
               THEN /\ p_input' = complete_phase(input, driver.resilient,
                                      PhaseResult_of(result, out, errs)).result
                    /\ p_pending' = DOMAIN p_input'
                    /\ p_pc' = "idle"
               ELSE UNCHANGED <<p_input, p_pending, p_pc>>
    /\ UNCHANGED <<parser, cst, p_out, p_errs, p_result>>
    /\ UNCHANGED <<lexvars, astvars, tcr, sub, unif, interp, descent>>

\* run: `let parser_result = complete_phase(&sources, &config, parser_result)?;`
\* then the tree of "./main.sfl" is printed and run returns Ok(())
DriverCompleteParser ==
    /\ driver.pc = "parsing"
    /\ p_result # "none"
    /\ IF p_result = "panic"
       THEN driver' = [driver EXCEPT !.pc = "done", !.result = "panic"]
       ELSE IF DriverAfter(complete_phase(input, driver.resilient,
                               PhaseResult_of(p_result, p_out, p_errs)),
                           "print").pc # "print"
            THEN driver' = DriverAfter(
                     complete_phase(input, driver.resilient,
                                    PhaseResult_of(p_result, p_out, p_errs)),
                     "print")
       ELSE IF 1 \notin DOMAIN p_out
            THEN driver' = [driver EXCEPT !.pc = "done", !.result = "panic"]
       ELSE driver' = [driver EXCEPT !.pc = "done", !.printed = TRUE,
                                     !.result = "Ok"]
    /\ UNCHANGED <<lexvars, parservars, astvars, tcr, sub, unif, interp, descent>>

DriverNext ==
    \/ DriverReadEntryPoint
    \/ LexNext
    \/ DriverCompleteLexer
    \/ ParserNext
    \/ DriverCompleteParser

DriverSpec == DriverInit /\ [][DriverNext]_vars

----------------------------------------------------------------------------
(* Properties of the driver *)

\* run ended with a non-zero exit code: it returned Err(()) or it panicked
DriverFailed == driver.pc = "done" /\ driver.result \in {"Err", "panic"}

\* C19: the parser runs, and the tree is printed, only if every earlier
\* phase returned Ok, or SoftErr with config.resilient; a phase result Err,
\* or SoftErr without resilient, ends run in failure with no later phase
\* run; and the parser receives the lexer's output, a SoftErr's included.
C19_LaterPhaseOnlyAfterSuccess ==
    /\ p_pc # "off" =>
          /\ result = "Ok" \/ (result = "SoftErr" /\ driver.resilient)
          /\ p_input = out
    /\ driver.printed =>
          /\ result = "Ok" \/ (result = "SoftErr" /\ driver.resilient)
          /\ p_result = "Ok" \/ (p_result = "SoftErr" /\ driver.resilient)
    /\ driver.pc \in {"parsing", "done"} /\ result = "SoftErr"
       /\ ~driver.resilient =>
          /\ DriverFailed
          /\ p_pc = "off"
    /\ driver.pc = "done" /\ p_result = "SoftErr" /\ ~driver.resilient =>
          /\ DriverFailed
          /\ ~driver.printed
    /\ ~complete_phase(input, driver.resilient, PhaseResult_Err(errs)).ok
    /\ ~complete_phase(input, driver.resilient, PhaseResult_Err(p_errs)).ok

\* the lexer returned SoftErr, the configuration is resilient, and the parser
\* has run on the lexer's output
C19_Witness ==
    /\ driver.pc = "done"
    /\ driver.resilient
    /\ result = "SoftErr"
    /\ p_input = out
    /\ p_result = "SoftErr"
    /\ driver.printed

----------------------------------------------------------------------------
(* Termination of the lexer *)

\* C20: every iteration of a loop of the lexer consumes a character or
\* leaves the loop; for comments(): when the loop condition holds, its body
\* moves `end` forward, also when the source ends in a comment whose last
\* character is '#'.
C20_CommentsLoopConsumes ==
    lpc = "comments" /\ ~Lexer_nth_panics(lx) /\ Lexer_nth(lx, 0) = "#" =>
        Lexer_comments_body(lx).end > lx.end

----------------------------------------------------------------------------
(* The substitution w returns for an application and for a let, against the  *)
(* sub-results it is built from                                              *)

\* where w stands when it reaches the first application or let of expr: the
\* checker, the context and the node, after the Expr and Abstraction arms on
\* the way down
RECURSIVE w_descend(_, _, _)
w_descend_var(v, ctx, n, e) ==
    w_descend(v.tc, MapInsert(ctx, Token_text(n), v.t), e)

w_descend(tc, ctx, expr) ==
    IF expr.tag = "Expr" THEN w_descend(tc, ctx, expr.args[1])
    ELSE IF expr.tag = "Abstraction"
         THEN w_descend_var(TypeChecker_variable(tc), ctx, expr.args[1],
                            expr.args[2])
    ELSE [tc |-> tc, ctx |-> ctx, expr |-> expr]

\* let (s1, e1_t) = self.w(ctx, e1)?
SubResult_e1(at) == w(at.tc, at.ctx, at.expr.args[1])

\* let (s2, e2_t) = self.w(&s1.apply(ctx), e2)?
SubResult_e2(at, r1) ==
    w(r1.tc, Substitution_apply_Context(r1.s, at.ctx), at.expr.args[2])

\* let s3 = self.unify(e2, &s2.apply(&e1_t), &Func { e2_t, var })?
SubResult_s3(at, r1, r2, v) ==
    unify(v.tc, at.expr.args[2], Substitution_apply_TType(r2.s, r1.t),
          TFunc(r2.t, v.t))

\* the second sub-result of a let: self.w(&new_ctx, e2)
SubResult_let_e2(at, r1, new_ctx) ==
    w(generalize(r1.tc, new_ctx, r1.t).tc,
      MapInsert(new_ctx, Token_text(at.expr.args[1]),
                generalize(r1.tc, new_ctx, r1.t).t),
      at.expr.args[3])

\* the type variables a run of w can draw
TypeVariables == { TVariable(TypeVariableName(n)) : n \in 0 .. MaxTypeVariables }

\* S(t) = s3(s2(s1(t))) for every type variable t (a substitution acts on a
\* type through its variables)
AppliesInOrder3(S, s1, s2, s3) ==
    \A t \in TypeVariables :
        Substitution_apply_TType(S, t)
            = Substitution_apply_TType(s3,
                  Substitution_apply_TType(s2, Substitution_apply_TType(s1, t)))

AppliesInOrder2(S, s1, s2) ==
    \A t \in TypeVariables :
        Substitution_apply_TType(S, t)
            = Substitution_apply_TType(s2, Substitution_apply_TType(s1, t))

ApplicationInOrder_s3(at, r1, r2, r3) ==
    r3.ok => AppliesInOrder3(w(at.tc, at.ctx, at.expr).s, r1.s, r2.s, r3.s)

ApplicationInOrder_e2(at, r1, r2) ==
    r2.ok => ApplicationInOrder_s3(at, r1, r2,
                 SubResult_s3(at, r1, r2, TypeChecker_variable(r2.tc)))

ApplicationInOrder_e1(at, r1) ==
    r1.ok => ApplicationInOrder_e2(at, r1, SubResult_e2(at, r1))

LetInOrder_e2(at, r1, r2) ==
    r2.ok => AppliesInOrder2(w(at.tc, at.ctx, at.expr).s, r1.s, r2.s)

LetInOrder_e1(at, r1) ==
    r1.ok => LetInOrder_e2(at, r1,
                 SubResult_let_e2(at, r1,
                     Substitution_apply_Context(r1.s, at.ctx)))

ReturnedInOrder(at) ==
    /\ at.expr.tag = "Application" =>
          ApplicationInOrder_e1(at, SubResult_e1(at))
    /\ at.expr.tag = "Let" =>
          LetInOrder_e1(at, w(at.tc, at.ctx, at.expr.args[2]))

\* C21: the substitution S that w returns for an application e1 e2 applies
\* s1 (from e1) first, then s2 (from e2), then s3 (from unify):
\* S(t) = s3(s2(s1(t))); for a let, S(t) = s2(s1(t)).
C21_ReturnedSubstitutionInOrder ==
    \A path \in TcVisited :
        path \in DOMAIN tcr.out =>
            ReturnedInOrder(w_descend(TypeChecker_new(path, tcr.hasher[path]),
                                      EmptyMap, tcr.input[path]))

----------------------------------------------------------------------------
(* Further properties of the parser *)

\* C22: whenever the CST parse returns holds an ErrorTree node the parser
\* has recorded at least one message for that source, and when run returns
\* with an ErrorTree in some CST of its output it returns SoftErr, not Ok.
C22_ErrorTreeImpliesMessage ==
    /\ p_pc = "parsed" /\ HasKind(cst, "ErrorTree") => parser.errors # <<>>
    /\ (p_pc = "returned" /\ p_result # "panic"
            /\ \E path \in DOMAIN p_out : HasKind(p_out[path], "ErrorTree"))
         => p_result = "SoftErr"

----------------------------------------------------------------------------
(* The grammar pass as steps.  The grammar functions call each other        *)
(* recursively; here the call stack is explicit, so that the parser can be  *)
(* observed between two calls and followed through nestings much deeper     *)
(* than the enumerated token sequences.  A frame is a grammar function, the *)
(* place in it where control stands, its mark and (for expr_rec) its `left` *)
(* argument.  One step runs the function on top of the stack up to its next *)
(* call of a grammar function, or to its return.  descent.ret is the        *)
(* MarkClosed the last return handed back.                                  *)

Frame(fn, at, m, left) == [fn |-> fn, at |-> at, m |-> m, left |-> left]

Entry(fn) == Frame(fn, "entry", 0, "Eof")

Top(d) == d.stack[Len(d.stack)]

Rest(d) == SubSeq(d.stack, 1, Len(d.stack) - 1)

\* a panic unwinds the whole stack; file returning ends the pass
Settle(d) ==
    IF Panicked(d.p) THEN [d EXCEPT !.pc = "panic"]
    ELSE IF d.stack = <<>> THEN [d EXCEPT !.pc = "done"]
    ELSE d

\* control moves on inside the function on top
Goto(d, p, frame) ==
    Settle([d EXCEPT !.p = p, !.stack = Append(Rest(d), frame)])

\* as Goto, the function keeping `lhs` in place of what the callee returned
GotoLhs(d, p, frame, lhs) ==
    Settle([d EXCEPT !.p = p, !.stack = Append(Rest(d), frame), !.ret = lhs])

\* the function on top calls callee and will go on at cont
Call(d, p, cont, callee) ==
    Settle([d EXCEPT !.p = p, !.stack = Rest(d) \o <<cont, callee>>])

\* the function on top returns m
Return(d, p, m) ==
    Settle([d EXCEPT !.p = p, !.stack = Rest(d), !.ret = m])

\* advance_with_error(Message { "expected a function", .. }) of file
file_loop_advance(p) ==
    Parser_advance_with_error(p, ParserMessage(p, <<"expected a function">>))

\* assert!(p.at(KeywordDef)); let m = p.open()
def_open(p) ==
    Parser_open(Require(Parser_at(p, "KeywordDef").p, Parser_at(p, "KeywordDef").b,
                        "assertion failed: p.at(KeywordDef)"))

\* assert!(p.at(TokenKind::ParenL)); let m = p.open()
params_open(p) ==
    Parser_open(Require(Parser_at(p, "ParenL").p, Parser_at(p, "ParenL").b,
                        "assertion failed: p.at(TokenKind::ParenL)"))

\* assert!(p.at(ParenL)); let m = p.open()
arg_list_open(p) ==
    Parser_open(Require(Parser_at(p, "ParenL").p, Parser_at(p, "ParenL").b,
                        "assertion failed: p.at(ParenL)"))

step_file(d) ==
    IF Top(d).at = "entry"
    THEN Goto(d, Parser_open(d.p).p,
              Frame("file", "loop", Parser_open(d.p).m, "Eof"))
    ELSE IF Parser_eof(d.p)
    THEN Return(d, Parser_close(d.p, Top(d).m, "File").p, Top(d).m)
    ELSE IF Parser_at(d.p, "KeywordDef").b
    THEN Call(d, Parser_at(d.p, "KeywordDef").p, Top(d), Entry("def"))
    ELSE Goto(d, file_loop_advance(Parser_at(d.p, "KeywordDef").p), Top(d))

step_def(d) ==
    CASE Top(d).at = "entry" ->
            Call(d, Parser_expect(def_open(d.p).p, "KeywordDef"),
                 Frame("def", "after_name", def_open(d.p).m, "Eof"),
                 Entry("name"))
      [] Top(d).at = "after_name" ->
            IF Parser_at(d.p, "ParenL").b
            THEN Call(d, Parser_at(d.p, "ParenL").p,
                      Frame("def", "after_params", Top(d).m, "Eof"),
                      Entry("params"))
            ELSE Goto(d, Parser_at(d.p, "ParenL").p,
                      Frame("def", "after_params", Top(d).m, "Eof"))
      [] Top(d).at = "after_params" ->
            IF Parser_eat(d.p, "Colon").b
            THEN Call(d, Parser_eat(d.p, "Colon").p,
                      Frame("def", "after_type", Top(d).m, "Eof"),
                      Entry("type_expr"))
            ELSE Goto(d, Parser_eat(d.p, "Colon").p,
                      Frame("def", "after_type", Top(d).m, "Eof"))
      [] Top(d).at = "after_type" ->
            IF Parser_eat(d.p, "CurlyL").b
            THEN Call(d, Parser_eat(d.p, "CurlyL").p,
                      Frame("def", "after_statement", Top(d).m, "Eof"),
                      Entry("statement"))
            ELSE Return(d, Parser_close(Parser_eat(d.p, "CurlyL").p, Top(d).m,
                                        "Definition").p,
                        Top(d).m)
      [] Top(d).at = "after_statement" ->
            Return(d, Parser_close(Parser_expect(d.p, "CurlyR"), Top(d).m,
                                   "Definition").p,
                   Top(d).m)

\* while !p.at(ParenR) && !p.eof() { if p.at(Name) { param(p) } else { break } }
step_params_loop(d, a) ==
    IF Panicked(a.p) \/ a.b \/ Parser_eof(a.p)
    THEN Return(d, Parser_close(Parser_expect(a.p, "ParenR"), Top(d).m,
                                "Params").p,
                Top(d).m)
    ELSE IF Parser_at(a.p, "Name").b
    THEN Call(d, Parser_at(a.p, "Name").p, Top(d), Entry("param"))
    ELSE Return(d, Parser_close(Parser_expect(Parser_at(a.p, "Name").p, "ParenR"),
                                Top(d).m, "Params").p,
                Top(d).m)

step_params(d) ==
    IF Top(d).at = "entry"
    THEN Goto(d, Parser_expect(params_open(d.p).p, "ParenL"),
              Frame("params", "loop", params_open(d.p).m, "Eof"))
    ELSE step_params_loop(d, Parser_at(d.p, "ParenR"))

step_param(d) ==
    CASE Top(d).at = "entry" ->
            Call(d, Parser_open(d.p).p,
                 Frame("param", "after_name", Parser_open(d.p).m, "Eof"),
                 Entry("name"))
      [] Top(d).at = "after_name" ->
            Call(d, Parser_expect(d.p, "Colon"),
                 Frame("param", "after_type", Top(d).m, "Eof"),
                 Entry("type_expr"))
      [] Top(d).at = "after_type" ->
            Return(d, param_at([p |-> d.p, m |-> Top(d).m],
                               Parser_at(d.p, "ParenR")),
                   Top(d).m)

step_type_expr(d) ==
    IF Top(d).at = "entry"
    THEN Call(d, Parser_open(d.p).p,
              Frame("type_expr", "after_name", Parser_open(d.p).m, "Eof"),
              Entry("name"))
    ELSE Return(d, Parser_close(d.p, Top(d).m, "TypeExpr").p, Top(d).m)

step_name(d) == Return(d, name(d.p).p, name(d.p).m)

\* while p.at(Semi) { open_before(lhs); close(.., Statement); lhs = expression(p) }
step_statement(d) ==
    IF Top(d).at = "entry"
    THEN Call(d, d.p, Frame("statement", "loop", 0, "Eof"), Entry("expr_rec"))
    ELSE IF Parser_at(d.p, "Semi").b
    THEN Call(d,
              Parser_close(
                  Parser_open_before(Parser_at(d.p, "Semi").p, d.ret).p,
                  d.ret, "Statement").p,
              Top(d), Entry("expr_rec"))
    ELSE Return(d, Parser_at(d.p, "Semi").p, d.ret)

\* the `loop` of expr_rec, n being p.nth(0)
step_expr_rec_binary(d, n) ==
    IF Panicked(n.p) THEN Return(d, n.p, d.ret)
    ELSE IF right_binds_tighter_panics(Top(d).left, n.kind)
    THEN Return(d, Panic(n.p, "assertion failed: *left == Eof"), d.ret)
    ELSE IF right_binds_tighter(Top(d).left, n.kind)
    THEN Call(d, Parser_advance(Parser_open_before(n.p, d.ret).p),
              Frame("expr_rec", "after_rhs", d.ret, Top(d).left),
              Frame("expr_rec", "entry", 0, n.kind))
    ELSE Return(d, n.p, d.ret)

step_expr_rec(d) ==
    CASE Top(d).at = "entry" ->
            Call(d, d.p, Frame("expr_rec", "calls", 0, Top(d).left),
                 Entry("expr_delimited"))
      [] Top(d).at = "calls" ->
            IF Parser_at(d.p, "ParenL").b
            THEN Call(d, Parser_open_before(Parser_at(d.p, "ParenL").p, d.ret).p,
                      Frame("expr_rec", "after_args", d.ret, Top(d).left),
                      Entry("arg_list"))
            ELSE Goto(d, Parser_at(d.p, "ParenL").p,
                      Frame("expr_rec", "binary", 0, Top(d).left))
      [] Top(d).at = "after_args" ->
            GotoLhs(d, Parser_close(d.p, Top(d).m, "Call").p,
                    Frame("expr_rec", "calls", 0, Top(d).left), Top(d).m)
      [] Top(d).at = "binary" ->
            step_expr_rec_binary(d, Parser_nth(d.p, 0))
      [] Top(d).at = "after_rhs" ->
            GotoLhs(d, Parser_close(d.p, Top(d).m, "Binary").p,
                    Frame("expr_rec", "binary", 0, Top(d).left), Top(d).m)

\* while !p.at(ParenR) && !p.eof() { arg(p); }
step_arg_list_loop(d, a) ==
    IF Panicked(a.p) \/ a.b \/ Parser_eof(a.p)
    THEN Return(d, Parser_close(Parser_expect(a.p, "ParenR"), Top(d).m,
                                "Args").p,
                Top(d).m)
    ELSE Call(d, a.p, Top(d), Entry("arg"))

step_arg_list(d) ==
    IF Top(d).at = "entry"
    THEN Goto(d, Parser_expect(arg_list_open(d.p).p, "ParenL"),
              Frame("arg_list", "loop", arg_list_open(d.p).m, "Eof"))
    ELSE step_arg_list_loop(d, Parser_at(d.p, "ParenR"))

step_arg(d) ==
    IF Top(d).at = "entry"
    THEN Call(d, Parser_open(d.p).p,
              Frame("arg", "after_expr", Parser_open(d.p).m, "Eof"),
              Entry("expr_rec"))
    ELSE Return(d, arg_at([p |-> d.p, m |-> Top(d).m],
                          Parser_at(d.p, "ParenR")),
                Top(d).m)

\* match p.nth(0) { .. }, o being what p.open() returned
step_expr_delimited_match(d, o, n) ==
    IF n.kind = "CurlyL"
    THEN Call(d, Parser_expect(n.p, "CurlyL"),
              Frame("expr_delimited", "after_statement", o.m, "Eof"),
              Entry("statement"))
    ELSE IF n.kind = "ParenL"
    THEN Call(d, Parser_expect(n.p, "ParenL"),
              Frame("expr_delimited", "after_expr", o.m, "Eof"),
              Entry("expr_rec"))
    ELSE Return(d, expr_delimited_match(o, n).p, o.m)

step_expr_delimited(d) ==
    CASE Top(d).at = "entry" ->
            step_expr_delimited_match(d, Parser_open(d.p),
                                      Parser_nth(Parser_open(d.p).p, 0))
      [] Top(d).at = "after_statement" ->
            Return(d, Parser_close(Parser_expect(d.p, "CurlyR"), Top(d).m,
                                   "Block").p,
                   Top(d).m)
      [] Top(d).at = "after_expr" ->
            Return(d, Parser_close(Parser_expect(d.p, "ParenR"), Top(d).m,
                                   "Expr").p,
                   Top(d).m)

----------------------------------------------------------------------------
(* The specification of the grammar pass: the token sequences of at most    *)
(* MaxStepTokens tokens and the examples                                    *)

MaxStepTokens == 3     \* longest token sequence (before Eof) enumerated here

DescentInputs ==
    { MkTokens(1, ks) : ks \in SeqsUpTo(ParserKinds, MaxStepTokens) \cup ExampleKinds }

\* parse: file(self) is entered on a parser Parser::from has just made
DescentInit ==
    /\ descent \in { [pc |-> "run", p |-> Parser_from(1, toks),
                      stack |-> <<Entry("file")>>, ret |-> 0] :
                     toks \in DescentInputs }
    \* the phases are not part of this specification
    /\ input = EmptyMap
    /\ pending = {}
    /\ lx = Lexer_new(0, <<>>)
    /\ tokens = <<>>
    /\ lpc = "off"
    /\ out = EmptyMap
    /\ errs = <<>>
    /\ result = "none"
    /\ p_input = EmptyMap
    /\ p_pending = {}
    /\ parser = Parser_from(0, <<>>)
    /\ cst = NoTree
    /\ p_pc = "off"
    /\ p_out = EmptyMap
    /\ p_errs = <<>>
    /\ p_result = "none"
    /\ a_input = EmptyMap
    /\ a_pending = {}
    /\ a_out = EmptyMap
    /\ a_pc = "off"
    /\ a_result = "none"
    /\ tcr = PhaseOff
    /\ sub = PhaseOff
    /\ unif = PhaseOff
    /\ interp = PhaseOff
    /\ driver = PhaseOff

\* one action per grammar function: a step of the function on top of the stack
StepFile ==
    /\ descent.pc = "run"
    /\ Top(descent).fn = "file"
    /\ descent' = step_file(descent)
    /\ UNCHANGED <<lexvars, parservars, astvars, tcr, sub, unif, interp, driver>>

StepDef ==
    /\ descent.pc = "run"
    /\ Top(descent).fn = "def"
    /\ descent' = step_def(descent)
    /\ UNCHANGED <<lexvars, parservars, astvars, tcr, sub, unif, interp, driver>>

StepParams ==
    /\ descent.pc = "run"
    /\ Top(descent).fn = "params"
    /\ descent' = step_params(descent)
    /\ UNCHANGED <<lexvars, parservars, astvars, tcr, sub, unif, interp, driver>>

StepParam ==
    /\ descent.pc = "run"
    /\ Top(descent).fn = "param"
    /\ descent' = step_param(descent)
    /\ UNCHANGED <<lexvars, parservars, astvars, tcr, sub, unif, interp, driver>>

StepTypeExpr ==
    /\ descent.pc = "run"
    /\ Top(descent).fn = "type_expr"
    /\ descent' = step_type_expr(descent)
    /\ UNCHANGED <<lexvars, parservars, astvars, tcr, sub, unif, interp, driver>>

StepName ==
    /\ descent.pc = "run"
    /\ Top(descent).fn = "name"
    /\ descent' = step_name(descent)
    /\ UNCHANGED <<lexvars, parservars, astvars, tcr, sub, unif, interp, driver>>

StepStatement ==
    /\ descent.pc = "run"
    /\ Top(descent).fn = "statement"
    /\ descent' = step_statement(descent)
    /\ UNCHANGED <<lexvars, parservars, astvars, tcr, sub, unif, interp, driver>>

StepExprRec ==
    /\ descent.pc = "run"
    /\ Top(descent).fn = "expr_rec"
    /\ descent' = step_expr_rec(descent)
    /\ UNCHANGED <<lexvars, parservars, astvars, tcr, sub, unif, interp, driver>>

StepArgList ==
    /\ descent.pc = "run"
    /\ Top(descent).fn = "arg_list"
    /\ descent' = step_arg_list(descent)
    /\ UNCHANGED <<lexvars, parservars, astvars, tcr, sub, unif, interp, driver>>

StepArg ==
    /\ descent.pc = "run"
    /\ Top(descent).fn = "arg"
    /\ descent' = step_arg(descent)
    /\ UNCHANGED <<lexvars, parservars, astvars, tcr, sub, unif, interp, driver>>

StepExprDelimited ==
    /\ descent.pc = "run"
    /\ Top(descent).fn = "expr_delimited"
    /\ descent' = step_expr_delimited(descent)
    /\ UNCHANGED <<lexvars, parservars, astvars, tcr, sub, unif, interp, driver>>

DescentNext ==
    \/ StepFile
    \/ StepDef
    \/ StepParams
    \/ StepParam
    \/ StepTypeExpr
    \/ StepName
    \/ StepStatement
    \/ StepExprRec
    \/ StepArgList
    \/ StepArg
    \/ StepExprDelimited

DescentSpec == DescentInit /\ [][DescentNext]_vars

----------------------------------------------------------------------------
(* The grammar pass on programs that end inside MaxNesting unclosed         *)
(* parentheses, blocks or argument lists                                    *)

MaxNesting == 84       \* unclosed delimiters at the end of a deep input

\* def f { followed by k copies of unit
RECURSIVE Repeated(_, _)
Repeated(unit, k) == IF k = 0 THEN <<>> ELSE unit \o Repeated(unit, k - 1)

Unclosed(unit, k) == <<"KeywordDef", "Name", "CurlyL">> \o Repeated(unit, k)

NestingUnits == { <<"ParenL">>, <<"CurlyL">>, <<"Name", "ParenL">> }

DeepKinds == { Unclosed(unit, n) : unit \in NestingUnits, n \in 1 .. MaxNesting }

DeepInputs == { MkTokens(1, ks) : ks \in ExampleKinds \cup DeepKinds }

DeepDescentInit ==
    /\ descent \in { [pc |-> "run", p |-> Parser_from(1, toks),
                      stack |-> <<Entry("file")>>, ret |-> 0] :
                     toks \in DeepInputs }
    \* the phases are not part of this specification
    /\ input = EmptyMap
    /\ pending = {}
    /\ lx = Lexer_new(0, <<>>)
    /\ tokens = <<>>
    /\ lpc = "off"
    /\ out = EmptyMap
    /\ errs = <<>>
    /\ result = "none"
    /\ p_input = EmptyMap
    /\ p_pending = {}
    /\ parser = Parser_from(0, <<>>)
    /\ cst = NoTree
    /\ p_pc = "off"
    /\ p_out = EmptyMap
    /\ p_errs = <<>>
    /\ p_result = "none"
    /\ a_input = EmptyMap
    /\ a_pending = {}
    /\ a_out = EmptyMap
    /\ a_pc = "off"
    /\ a_result = "none"
    /\ tcr = PhaseOff
    /\ sub = PhaseOff
    /\ unif = PhaseOff
    /\ interp = PhaseOff
    /\ driver = PhaseOff

DeepDescentSpec == DeepDescentInit /\ [][DescentNext]_vars

\* C23: whatever the token sequence, and however many parentheses, blocks or
\* argument lists are left unclosed at its end, the fuel never runs out: the
\* grammar pass never panics with 'parser is stuck'.
C23_FuelNeverRunsOut == descent.p.panic # "parser is stuck"

----------------------------------------------------------------------------
(* Scoping in the interpreter *)

\* C24: bindings are scoped.  When interpret returns from a let or from an
\* application, the caller's environment is what it was before (here: the
\* empty environment run passes), and let y = 5 in ((\y -> y) 1) + y
\* evaluates to 6.
C24_BindingsAreScoped ==
    interp.pc = "ran" /\ interp.outcome.result = "Ok" =>
        /\ interp.ast.tag \in {"Let", "Application"} =>
              interpret(interp.ast, EmptyMap, {}).env = EmptyMap
        /\ interp.ast = ScopedParameter =>
              interp.outcome.v = Value_Number(F64(3, 1))

----------------------------------------------------------------------------
(* The event buffer during the grammar pass *)

Indices(events) == [i \in 1 .. Len(events) |-> i]

\* where the Open, Close and Advance events stand in the buffer, in order
OpenPlaces(events) ==
    SelectSeq(Indices(events), LAMBDA i : events[i].ev = "Open")

ClosePlaces(events) ==
    SelectSeq(Indices(events), LAMBDA i : events[i] = CloseEvent)

AdvancePlaces(events) ==
    SelectSeq(Indices(events), LAMBDA i : events[i] = AdvanceEvent)

\* every prefix has at least as many Open as Close events: the k-th Close
\* stands after the k-th Open
PrefixBalancedAt(opens, closes) ==
    /\ Len(closes) <= Len(opens)
    /\ \A k \in 1 .. Len(closes) : opens[k] < closes[k]

PrefixBalanced(events) ==
    PrefixBalancedAt(OpenPlaces(events), ClosePlaces(events))

EventsInvariant(p) ==
    /\ Len(AdvancePlaces(p.events)) = p.pos
    /\ PrefixBalanced(p.events)

\* the buffer without its event at index m (counted from 0)
WithoutEvent(events, m) ==
    SubSeq(events, 1, m) \o SubSeq(events, m + 2, Len(events))

\* the marks a grammar function can hold: the indices of the Open events
OpenMarks(p) == { i - 1 : i \in { j \in 1 .. Len(p.events) : p.events[j].ev = "Open" } }

HasUnclosed(p) == Len(OpenPlaces(p.events)) > Len(ClosePlaces(p.events))

PrimitivesPreserve(p) ==
    /\ EventsInvariant(Parser_open(p).p)
    /\ \A m \in OpenMarks(p) :
          /\ EventsInvariant(Parser_open_before(p, m).p)
          /\ WithoutEvent(Parser_open_before(p, m).p.events, m) = p.events
          /\ HasUnclosed(p) => EventsInvariant(Parser_close(p, m, "Expr").p)
    /\ ~Parser_eof(p) =>
          /\ EventsInvariant(Parser_advance(p))
          /\ EventsInvariant(
                 Parser_advance_with_error(p, ParserMessage(p, <<"expected a function">>)))

\* C25: at every point of the grammar pass the Advance events number pos and
\* every prefix of the buffer has at least as many Open as Close events;
\* when the pass finishes the Open and Close events are equally many; open,
\* close, open_before, advance and advance_with_error keep this, and
\* open_before keeps the order of the events already in the buffer.
C25_EventBufferBalanced ==
    descent.pc # "off" =>
        /\ EventsInvariant(descent.p)
        /\ descent.pc = "done" =>
              Len(OpenPlaces(descent.p.events)) = Len(ClosePlaces(descent.p.events))
        /\ descent.pc = "run" => PrimitivesPreserve(descent.p)

\* a pass that has finished after wrapping a closed subtree with open_before
\* (a Call, a Binary or a Statement) and recording an error
C25_Witness ==
    /\ descent.pc = "done"
    /\ descent.p.pos >= 5
    /\ descent.p.errors # <<>>
    /\ \E i \in DOMAIN descent.p.events :
          descent.p.events[i] \in { OpenEvent("Call"), OpenEvent("Binary"),
                                    OpenEvent("Statement") }
    /\ EventsInvariant(descent.p)
    /\ Len(OpenPlaces(descent.p.events)) = Len(ClosePlaces(descent.p.events))

----------------------------------------------------------------------------
(* Parser::expect at the points the grammar pass reaches *)

\* the kinds a token before Eof can have
ExpectKinds ==
    ParserKinds \cup {"Minus", "Equal", "LiteralBool", "KeywordLet", "Error"}

CurrentToken(p) == p.tokens[p.pos + 1]

\* the same parser over tokens that carry a payload
WithPayloads(p) ==
    [p EXCEPT !.tokens = [i \in DOMAIN @ |-> [@[i] EXCEPT !.payload = <<"x">>]]]

\* what expect(kind) made of p into q
ExpectEffect(p, q, kind) ==
    IF CurrentToken(p).kind = kind
    THEN /\ q.pos = p.pos + 1
         /\ q.events = Append(p.events, AdvanceEvent)
         /\ q.errors = p.errors
    ELSE /\ q.pos = p.pos
         /\ q.events = p.events
         /\ Len(q.errors) = Len(p.errors) + 1
         /\ SubSeq(q.errors, 1, Len(p.errors)) = p.errors
         /\ q.errors[Len(q.errors)].position = CurrentToken(p).position

\* C26: when the current token's kind differs from the expected kind,
\* expect leaves pos and the event buffer unchanged and appends exactly one
\* message, positioned at the current token; when the kind matches, whatever
\* the payload, it advances by exactly one token and records no message.
\* Stated of every parser the grammar pass reaches while it runs, the one
\* that `p.expect(CurlyR)` of fn_def finds after statement has returned
\* among them.
C26_ExpectFrame ==
    descent.pc = "run" =>
        \A kind \in ExpectKinds :
            /\ ExpectEffect(descent.p, Parser_expect(descent.p, kind), kind)
            /\ ExpectEffect(WithPayloads(descent.p),
                            Parser_expect(WithPayloads(descent.p), kind), kind)

----------------------------------------------------------------------------
(* Associativity of binary operators of equal tightness *)

\* child is a subtree that holds the one token and is no Binary node
OperandOf(child, token) ==
    /\ child.child = "Tree"
    /\ child.v.kind # "Binary"
    /\ Leaves(child.v) = <<token>>

\* child is Binary [left operand, operator token, right operand]
BinaryOfOperands(child, left, operator, right) ==
    /\ child.child = "Tree"
    /\ child.v.kind = "Binary"
    /\ Len(child.v.children) = 3
    /\ OperandOf(child.v.children[1], left)
    /\ child.v.children[2] = TokenChild(operator)
    /\ OperandOf(child.v.children[3], right)

\* child is Binary [Binary [a, op1, b], op2, c]
LeftAssociated(child, a, op1, b, op2, c) ==
    /\ child.child = "Tree"
    /\ child.v.kind = "Binary"
    /\ Len(child.v.children) = 3
    /\ BinaryOfOperands(child.v.children[1], a, op1, b)
    /\ child.v.children[2] = TokenChild(op2)
    /\ OperandOf(child.v.children[3], c)

\* the tree of def f { a op1 b op2 c } holds the left-associated expression
\* as the body of the one definition
ChainParsedLeft(tree, toks) ==
    /\ tree.kind = "File"
    /\ Len(tree.children) = 1
    /\ tree.children[1].child = "Tree"
    /\ tree.children[1].v.kind = "Definition"
    /\ Len(tree.children[1].v.children) = 5
    /\ LeftAssociated(tree.children[1].v.children[4],
                      toks[4], toks[5], toks[6], toks[7], toks[8])

\* C27: binary operators of equal tightness associate to the left: for
\* operators op1, op2 among + and -, a op1 b op2 c parses to
\* Binary(Binary(a, op1, b), op2, c), each Binary node having the children
\* left subtree, operator token, right subtree in source order.
C27_EqualTightnessAssociatesLeft ==
    (p_pc = "parsed" /\ parser.tokens \in { MkTokens(1, ks) : ks \in BinaryChains })
        => /\ parser.errors = <<>>
           /\ ChainParsedLeft(cst, parser.tokens)

\* a - b + c has been parsed to Binary(Binary(a, -, b), +, c)
C27_Witness ==
    /\ p_pc = "parsed"
    /\ parser.tokens = MkTokens(1, BinaryChain("Name", "Minus", "Plus"))
    /\ ChainParsedLeft(cst, parser.tokens)
    /\ cst.children[1].v.children[4].v.children[2].v.kind = "Plus"
    /\ cst.children[1].v.children[4].v.children[1].v.children[2].v.kind = "Minus"

====
